---- MODULE Spec2Model ----
(***************************************************************************)
(* Model of the 1bpc compiler pipeline:                                    *)
(*   tokenize -> preprocess_tokens -> convert_numbers_to_binary            *)
(*            -> Memory_Map._process_tokens -> Memory_Map._convert_to_binary*)
(*                                                                         *)
(* Text is a sequence of one-character strings, so that slicing, padding,  *)
(* regular-expression matching and radix conversion are computed the way   *)
(* the Python code computes them.  Message texts are sequences whose       *)
(* elements are the literal fragments of the f-string and the characters   *)
(* of the interpolated values.                                             *)
(***************************************************************************)
EXTENDS Integers, Sequences, FiniteSets, TLC

VARIABLES
    source,        \* the source text: a sequence of lines (compile_source's argument)
    pc,            \* the stage of compile_source the run is at
    raised,        \* whether an exception has left compile_source
    tokens,        \* the local `tokens` of compile_source / preprocess_tokens
    ctx,           \* the macro expansion context `ctx` of preprocess_tokens
    macro_idx,     \* index into MACROS of the `for macro in MACROS` loop
    scan_i,        \* the scan position `i` of that loop's while
    consumed,      \* the tokens the last macro call consumed
    new_tokens,    \* the tokens the last macro call returned
    map,           \* Memory_Map.map
    labels,        \* Memory_Map.labels
    notes,         \* Memory_Map.notes
    map_i,         \* the index `i` of _process_tokens
    is_reachable,  \* the flag `is_reachable` of _process_tokens
    binary,        \* Memory_Map.binary
    args,          \* the options of the command line (`args` of main.py)
    output,        \* the notes get_output has listed, address by address
    printed,       \* what print_notes has printed
    compiled       \* the memory maps the runs of compile_and_output before this one built

\* What belongs to the command line program around compile_source
main_vars == <<args, output, printed, compiled>>

vars == <<source, pc, raised, tokens, ctx, macro_idx, scan_i, consumed, new_tokens,
          map, labels, notes, map_i, is_reachable, binary, args, output, printed,
          compiled>>

----------------------------------------------------------------------------
(* Characters *)

Lower == {"a","b","c","d","e","f","g","h","i","j","k","l","m",
          "n","o","p","q","r","s","t","u","v","w","x","y","z"}

Digits == {"0","1","2","3","4","5","6","7","8","9"}

HexDigits == Digits \cup {"a","b","c","d","e","f"}

BinDigits == {"0","1"}

\* The characters str.lstrip(), str.strip() and str.split() treat as blanks.
Whitespace == {" ", "\t"}

\* [a-z\+\-_] and [a-z0-9\+\-_] of _RE_CMD
CmdStart == Lower \cup {"+", "-", "_"}

CmdRest == CmdStart \cup Digits

\* [a-z_] and [a-z0-9_] of _RE_LABEL and _RE_LABREF
IdentStart == Lower \cup {"_"}

IdentRest == IdentStart \cup Digits

----------------------------------------------------------------------------
(* Python string operations on sequences of characters *)

AllIn(s, S) == \A k \in 1..Len(s) : s[k] \in S

Contains(s, c) == \E k \in 1..Len(s) : s[k] = c

\* s[n:] with 0 <= n
DropFirst(s, n) == IF n >= Len(s) THEN <<>> ELSE SubSeq(s, n + 1, Len(s))

\* s[:n] with 0 <= n
TakeFirst(s, n) == IF n >= Len(s) THEN s ELSE SubSeq(s, 1, n)

RECURSIVE lstrip(_)
lstrip(s) ==
    IF s = <<>> THEN <<>>
    ELSE IF Head(s) \in Whitespace THEN lstrip(Tail(s)) ELSE s

RECURSIVE rstrip(_)
rstrip(s) ==
    IF s = <<>> THEN <<>>
    ELSE IF s[Len(s)] \in Whitespace THEN rstrip(SubSeq(s, 1, Len(s) - 1)) ELSE s

strip(s) == rstrip(lstrip(s))

\* The length of the longest prefix of s without blanks.
WordLen(s) ==
    IF \E k \in 1..Len(s) : s[k] \in Whitespace
    THEN (CHOOSE k \in 1..Len(s) :
              s[k] \in Whitespace /\ \A j \in 1..(k - 1) : s[j] \notin Whitespace) - 1
    ELSE Len(s)

\* str.split(maxsplit=1): the list of at most two parts.  Leading blanks
\* are skipped, the first part is the first run of non-blanks, the second is
\* what follows the blanks after it; a part that would be empty is left out.
split_maxsplit1(s) ==
    LET s1    == lstrip(s)
        n     == WordLen(s1)
        rest  == lstrip(DropFirst(s1, n))
    IN  IF s1 = <<>> THEN <<>>
        ELSE IF rest = <<>> THEN <<TakeFirst(s1, n)>>
        ELSE <<TakeFirst(s1, n), rest>>

\* str.zfill(width): pad on the left with "0" to at least width characters;
\* a leading sign stays in front of the padding.
RECURSIVE Zeros(_)
Zeros(n) == IF n <= 0 THEN <<>> ELSE <<"0">> \o Zeros(n - 1)

\* A variant of zfill that pads on the right, as str.ljust(width, "0").
ljust_zeros(s, width) ==
    IF Len(s) >= width THEN s ELSE s \o Zeros(width - Len(s))

zfill(s, width) ==
    IF Len(s) >= width THEN s
    ELSE IF s # <<>> /\ Head(s) \in {"+", "-"}
         THEN <<Head(s)>> \o Zeros(width - Len(s)) \o Tail(s)
         ELSE Zeros(width - Len(s)) \o s

\* sep.join(texts)
RECURSIVE join(_, _)
join(sep, texts) ==
    IF texts = <<>> THEN <<>>
    ELSE IF Len(texts) = 1 THEN texts[1]
    ELSE texts[1] \o sep \o join(sep, Tail(texts))

----------------------------------------------------------------------------
(* Numbers and their texts *)

DigitChar(d) ==
    CASE d = 0 -> "0" [] d = 1 -> "1" [] d = 2 -> "2" [] d = 3 -> "3"
      [] d = 4 -> "4" [] d = 5 -> "5" [] d = 6 -> "6" [] d = 7 -> "7"
      [] d = 8 -> "8" [] d = 9 -> "9" [] d = 10 -> "a" [] d = 11 -> "b"
      [] d = 12 -> "c" [] d = 13 -> "d" [] d = 14 -> "e" [] d = 15 -> "f"

DigitValue(c) ==
    CASE c = "0" -> 0 [] c = "1" -> 1 [] c = "2" -> 2 [] c = "3" -> 3
      [] c = "4" -> 4 [] c = "5" -> 5 [] c = "6" -> 6 [] c = "7" -> 7
      [] c = "8" -> 8 [] c = "9" -> 9 [] c = "a" -> 10 [] c = "b" -> 11
      [] c = "c" -> 12 [] c = "d" -> 13 [] c = "e" -> 14 [] c = "f" -> 15

\* The digits of n >= 0 in the given base, most significant first.
RECURSIVE NatText(_, _)
NatText(n, base) ==
    IF n < base THEN <<DigitChar(n)>>
    ELSE NatText(n \div base, base) \o <<DigitChar(n % base)>>

\* str(n) and f"{n}" of an int
str(n) == IF n < 0 THEN <<"-">> \o NatText(-n, 10) ELSE NatText(n, 10)

\* bin(n): "0b..." or "-0b..."
bin(n) ==
    IF n < 0 THEN <<"-", "0", "b">> \o NatText(-n, 2)
    ELSE <<"0", "b">> \o NatText(n, 2)

\* bin(n)[2:], which the code comments as "Remove '0b' prefix"
bin_2(n) == DropFirst(bin(n), 2)

\* The most digits int() converts in a base that is no power of two
\* (sys.int_info.default_max_str_digits); a longer text is a ValueError.
INT_MAX_STR_DIGITS == 4300

\* Whether int(s, base) parses: one or more digits of the base, and in base
\* ten no more of them than the limit.
int_ok(s, base) ==
    /\ s # <<>>
    /\ \A k \in 1..Len(s) : s[k] \in HexDigits /\ DigitValue(s[k]) < base
    /\ base = 10 => Len(s) <= INT_MAX_STR_DIGITS

\* int(s, base) of a text that parses
RECURSIVE int(_, _)
int(s, base) ==
    IF s = <<>> THEN 0
    ELSE int(SubSeq(s, 1, Len(s) - 1), base) * base + DigitValue(s[Len(s)])

----------------------------------------------------------------------------
(* tokenizer.py *)

TokenType == {"CMD", "BIN", "DECIMAL", "HEXADECIMAL", "LABEL", "LABREF",
              "COMMENT", "ERR", "INFO"}

get_token_type_name(token_type) ==
    CASE token_type = "CMD" -> "Instruction"
      [] token_type = "BIN" -> "Binary Number"
      [] token_type = "DECIMAL" -> "Decimal Number"
      [] token_type = "HEXADECIMAL" -> "Hexadecimal Number"
      [] token_type = "LABEL" -> "Label"
      [] token_type = "LABREF" -> "Label Reference"
      [] token_type = "COMMENT" -> "Comment"
      [] token_type = "ERR" -> "Error"
      [] token_type = "INFO" -> "Info"

\* Token(type, value, line_nr, src_text, note); note None is the empty text
\* (the code only ever tests a note for truth).
Token(type, value, line_nr, src_text, note) ==
    [type |-> type, value |-> value, line_nr |-> line_nr,
     src_text |-> src_text, note |-> note]

None == <<>>

\* The regular expressions: whether the chunk matches, and group(1).
RE_CMD(t) ==
    [ok |-> /\ t # <<>>
            /\ t[1] \in CmdStart
            /\ AllIn(t, CmdRest),
     g  |-> t]

RE_BIN(t) ==
    [ok |-> /\ Len(t) >= 2
            /\ t[1] = "%"
            /\ AllIn(Tail(t), BinDigits),
     g  |-> DropFirst(t, 1)]

RE_DECIMAL(t) ==
    [ok |-> /\ t # <<>>
            /\ AllIn(t, Digits),
     g  |-> t]

RE_HEXADECIMAL(t) ==
    [ok |-> /\ Len(t) >= 3
            /\ t[1] = "0"
            /\ t[2] = "x"
            /\ AllIn(DropFirst(t, 2), HexDigits),
     g  |-> DropFirst(t, 2)]

RE_LABEL(t) ==
    [ok |-> /\ Len(t) >= 2
            /\ t[Len(t)] = ":"
            /\ t[1] \in IdentStart
            /\ AllIn(TakeFirst(t, Len(t) - 1), IdentRest),
     g  |-> TakeFirst(t, Len(t) - 1)]

RE_LABREF(t) ==
    [ok |-> /\ Len(t) >= 2
            /\ t[1] = ":"
            /\ t[2] \in IdentStart
            /\ AllIn(DropFirst(t, 1), IdentRest),
     g  |-> DropFirst(t, 1)]

\* ^(//|;|#)(.*) : ok, and group(2)
RE_COMMENT(line) ==
    IF Len(line) >= 2 /\ line[1] = "/" /\ line[2] = "/"
    THEN [ok |-> TRUE, g |-> DropFirst(line, 2)]
    ELSE IF line # <<>> /\ line[1] \in {";", "#"}
    THEN [ok |-> TRUE, g |-> DropFirst(line, 1)]
    ELSE [ok |-> FALSE, g |-> <<>>]

\* The token of a chunk: the first regular expression that matches, in the
\* order of the list in _tokenize_substring, or the syntax error token.
classify(tokentext, line_nr) ==
    IF RE_CMD(tokentext).ok
    THEN Token("CMD", RE_CMD(tokentext).g, line_nr, tokentext, None)
    ELSE IF RE_BIN(tokentext).ok
    THEN Token("BIN", RE_BIN(tokentext).g, line_nr, tokentext, None)
    ELSE IF RE_DECIMAL(tokentext).ok
    THEN Token("DECIMAL", RE_DECIMAL(tokentext).g, line_nr, tokentext, None)
    ELSE IF RE_HEXADECIMAL(tokentext).ok
    THEN Token("HEXADECIMAL", RE_HEXADECIMAL(tokentext).g, line_nr, tokentext, None)
    ELSE IF RE_LABEL(tokentext).ok
    THEN Token("LABEL", RE_LABEL(tokentext).g, line_nr, tokentext, None)
    ELSE IF RE_LABREF(tokentext).ok
    THEN Token("LABREF", RE_LABREF(tokentext).g, line_nr, tokentext, None)
    ELSE Token("ERR", <<"Syntax error: Cannot understand \"">> \o tokentext \o <<"\"">>,
               line_nr, tokentext, None)

\* _tokenize_substring: [raised, has_token, token, remaining].  raised is the
\* ValueError of unpacking a one-element split() into (tokentext, remainder).
tokenize_substring(substring0, line_nr) ==
    LET substring == lstrip(substring0)
        line      == substring
        parts     == IF Contains(substring, " ")
                     THEN split_maxsplit1(substring)
                     ELSE <<substring, <<>> >>
        no_token  == Token("ERR", <<>>, line_nr, <<>>, None)
    IN  IF substring = <<>>
        THEN [raised |-> FALSE, has_token |-> FALSE, token |-> no_token,
              remaining |-> <<>>]
        ELSE IF RE_COMMENT(line).ok
        THEN [raised |-> FALSE, has_token |-> TRUE,
              token |-> Token("COMMENT", strip(RE_COMMENT(line).g), line_nr,
                              line, None),
              remaining |-> DropFirst(substring, Len(line))]
        ELSE IF Len(parts) # 2
        THEN [raised |-> TRUE, has_token |-> FALSE, token |-> no_token,
              remaining |-> <<>>]
        ELSE [raised |-> FALSE, has_token |-> TRUE,
              token |-> classify(parts[1], line_nr),
              remaining |-> parts[2]]

\* The while loop of tokenize over one line: [raised, tokens].
RECURSIVE tokenize_line(_, _)
tokenize_line(substring, line_nr) ==
    IF substring = <<>> THEN [raised |-> FALSE, tokens |-> <<>>]
    ELSE LET r == tokenize_substring(substring, line_nr)
         IN  IF r.raised THEN [raised |-> TRUE, tokens |-> <<>>]
             ELSE [tokenize_line(r.remaining, line_nr) EXCEPT
                      !.tokens = (IF r.has_token THEN <<r.token>> ELSE <<>>) \o @]

\* The for loop of tokenize over lines[line_nr..]: [raised, tokens].
RECURSIVE tokenize_from(_, _)
tokenize_from(lines, line_nr) ==
    IF line_nr > Len(lines) THEN [raised |-> FALSE, tokens |-> <<>>]
    ELSE LET r == tokenize_line(lines[line_nr], line_nr)
         IN  IF r.raised THEN [raised |-> TRUE, tokens |-> <<>>]
             ELSE [tokenize_from(lines, line_nr + 1) EXCEPT !.tokens = r.tokens \o @]

tokenize(source_code) == tokenize_from(source_code, 1)

\* ((", " + token.note) if token.note else "")
note_prefix(token) == IF token.note # <<>> THEN <<", ">> \o token.note ELSE <<>>

convert_token_to_binary(token) ==
    IF token.type = "DECIMAL"
    THEN Token("BIN", bin_2(int(token.value, 10)), token.line_nr, token.src_text,
               note_prefix(token) \o <<"converted from decimal: ">> \o token.value)
    ELSE IF token.type = "HEXADECIMAL"
    THEN Token("BIN", bin_2(int(token.value, 16)), token.line_nr, token.src_text,
               note_prefix(token) \o <<"converted from hex: 0x">> \o token.value)
    ELSE token

\* get_token_value_as_int: [raised, value].  raised is the ValueError of the
\* last line, or of int() given a text it does not convert.
get_token_value_as_int(token) ==
    LET base == CASE token.type = "BIN" -> 2
                  [] token.type = "DECIMAL" -> 10
                  [] token.type = "HEXADECIMAL" -> 16
                  [] OTHER -> 0
    IN  IF base = 0 \/ ~int_ok(token.value, base)
        THEN [raised |-> TRUE, value |-> 0]
        ELSE [raised |-> FALSE, value |-> int(token.value, base)]

convert_numbers_to_binary(toks) ==
    [k \in 1..Len(toks) |-> convert_token_to_binary(toks[k])]

----------------------------------------------------------------------------
(* macro.py *)

\* Macro(name, operands, process)
Macro(name, operands, process) ==
    [name |-> name, operands |-> operands, process |-> process]

\* Macro.__len__
macro_len(macro) == 1 + Len(macro.operands)

\* Macro.token_matches_name
token_matches_name(macro, token) ==
    token.type = "CMD" /\ token.value = macro.name

\* Macro.tokens_match_macro
tokens_match_macro(macro, toks) ==
    /\ Len(toks) >= macro_len(macro)
    /\ token_matches_name(macro, toks[1])
    /\ \A k \in 1..Len(macro.operands) : toks[k + 1].type = macro.operands[k]

----------------------------------------------------------------------------
(* onebpc_macros.py *)

\* " ".join(t.src_text for t in tokens)
src_texts(toks) == join(<<" ">>, [k \in 1..Len(toks) |-> toks[k].src_text])

\* The context before any macro has run: the empty dict.
EmptyContext ==
    [has_defines |-> FALSE, defines |-> <<>>,
     has_mallocs |-> FALSE, next_address |-> 0, allocations |-> <<>>]

\* d[key] = value
dict_set(d, key, value) ==
    [k \in (DOMAIN d) \cup {key} |-> IF k = key THEN value ELSE d[k]]

\* What a macro's process function gives: the returned tokens and the
\* context it leaves, or raised.
Returns(toks, context) == [raised |-> FALSE, tokens |-> toks, ctx |-> context]

Raises(context) == [raised |-> TRUE, tokens |-> <<>>, ctx |-> context]

\* A variant of define that binds the name again when it is bound.
define_rebinding(toks, context) ==
    Returns(<<>>,
            [context EXCEPT !.has_defines = TRUE,
                            !.defines = dict_set(@, toks[2].value,
                                                 Token(toks[3].type, toks[3].value,
                                                       toks[3].line_nr, toks[3].src_text,
                                                       toks[3].note))])

define(toks, context) ==
    LET macro_name_token == toks[2]
        macro_body_token == toks[3]
        macro_name       == macro_name_token.value
        context1         == [context EXCEPT !.has_defines = TRUE]
    IN  IF macro_name \in DOMAIN context1.defines
        THEN Returns(<<Token("ERR",
                             <<"Macro '">> \o macro_name \o <<"' is already defined.">>,
                             toks[1].line_nr, src_texts(toks), None)>>,
                     context1)
        ELSE Returns(<<>>,
                     [context1 EXCEPT !.defines =
                         dict_set(@, macro_name,
                                  Token(macro_body_token.type, macro_body_token.value,
                                        macro_body_token.line_nr,
                                        macro_body_token.src_text,
                                        macro_body_token.note))])

\* A variant of use that hands back the label reference after the defined
\* token.
use_keeping_reference(toks, context) ==
    IF ~context.has_defines \/ toks[2].value \notin DOMAIN context.defines
    THEN Returns(<<Token("ERR",
                         <<"Macro '">> \o toks[2].value \o <<"' is not defined.">>,
                         toks[2].line_nr, src_texts(toks), None)>>,
                 context)
    ELSE Returns(<<Token(context.defines[toks[2].value].type,
                         context.defines[toks[2].value].value,
                         toks[2].line_nr, src_texts(toks), toks[2].note),
                   toks[2]>>,
                 context)

use(toks, context) ==
    LET macro_name_token == toks[2]
        macro_name       == macro_name_token.value
        defined_token    == context.defines[macro_name]
    IN  IF ~context.has_defines \/ macro_name \notin DOMAIN context.defines
        THEN Returns(<<Token("ERR",
                             <<"Macro '">> \o macro_name \o <<"' is not defined.">>,
                             macro_name_token.line_nr, src_texts(toks), None)>>,
                     context)
        ELSE Returns(<<Token(defined_token.type, defined_token.value,
                             macro_name_token.line_nr, src_texts(toks),
                             macro_name_token.note)>>,
                     context)

\* The ceiling of the allocator and the free units it wants left (256 - 16).
MEMORY_SIZE == 256

MEMORY_RESERVE == 16

\* A variant of new_next_address that forgets the address it starts from.
new_next_address_from_zero(address, size) ==
    IF size >= MEMORY_SIZE THEN MEMORY_SIZE - 1 ELSE size

\* new_next_address = address + size, held under the ceiling
new_next_address(address, size) ==
    IF address + size >= MEMORY_SIZE THEN MEMORY_SIZE - 1 ELSE address + size

malloc(toks, context) ==
    LET label_token      == toks[2]
        size_token       == toks[3]
        size_r           == get_token_value_as_int(size_token)
        size             == size_r.value
        address          == IF context.has_mallocs THEN context.next_address ELSE 0
        allocations      == IF context.has_mallocs THEN context.allocations ELSE <<>>
        next             == new_next_address(address, size)
        context1         == [context EXCEPT
                                !.has_mallocs = TRUE,
                                !.allocations = dict_set(allocations, label_token.value,
                                                         [address |-> address,
                                                          size |-> size]),
                                !.next_address = next]
    IN  IF size_r.raised THEN Raises(context)
        ELSE IF next >= MEMORY_SIZE - MEMORY_RESERVE
        THEN Returns(<<Token("ERR",
                             <<"Not enough memory to allocate ">> \o str(size)
                                 \o <<" bytes for '">> \o label_token.value \o <<"'.">>,
                             size_token.line_nr, src_texts(toks), None)>>,
                     context1)
        ELSE Returns(<<Token("INFO",
                             <<"'">> \o label_token.value \o <<"' is allocated to [">>
                                 \o str(address) \o <<": ">> \o str(address + size - 1)
                                 \o <<"] (">> \o str(size) \o <<" bits)">>,
                             toks[1].line_nr, src_texts(toks), None)>>,
                     context1)

\* Whether a name is in context["mallocs"]["allocations"]
is_allocated(context, name) ==
    context.has_mallocs /\ name \in DOMAIN context.allocations

at(toks, context) ==
    LET label_token == toks[2]
        address     == context.allocations[label_token.value].address
        noted       == SelectSeq(toks, LAMBDA t : t.note # <<>>)
    IN  IF ~is_allocated(context, label_token.value)
        THEN Returns(<<Token("ERR",
                             <<"Memory label '">> \o label_token.value
                                 \o <<"' is not allocated.">>,
                             label_token.line_nr, src_texts(toks), None)>>,
                     context)
        ELSE Returns(<<Token("BIN", bin_2(address), label_token.line_nr,
                             src_texts(toks),
                             join(<<", ">>, [k \in 1..Len(noted) |-> noted[k].note]))>>,
                     context)

\* str.lower(): every upper-case letter becomes its lower-case letter
lower_char(c) ==
    CASE c = "A" -> "a" [] c = "B" -> "b" [] c = "C" -> "c" [] c = "D" -> "d"
      [] c = "E" -> "e" [] c = "F" -> "f" [] c = "G" -> "g" [] c = "H" -> "h"
      [] c = "I" -> "i" [] c = "J" -> "j" [] c = "K" -> "k" [] c = "L" -> "l"
      [] c = "M" -> "m" [] c = "N" -> "n" [] c = "O" -> "o" [] c = "P" -> "p"
      [] c = "Q" -> "q" [] c = "R" -> "r" [] c = "S" -> "s" [] c = "T" -> "t"
      [] c = "U" -> "u" [] c = "V" -> "v" [] c = "W" -> "w" [] c = "X" -> "x"
      [] c = "Y" -> "y" [] c = "Z" -> "z" [] OTHER -> c

lower(s) == [k \in 1..Len(s) |-> lower_char(s[k])]

\* make_at_token of at_math
make_at_token(toks, labref_token) ==
    Token("CMD", <<"a","t">>, toks[1].line_nr, <<"a","t">>,
          (IF labref_token.note # <<>> THEN <<", ">> ELSE <<>>)
              \o <<"from 'at <math>' macro">>)

\* The three tokens at_math appends for one operand: the set_a, set_b or
\* set_c instruction, the at token, and the label reference moved to the
\* line of the call.
at_operand(toks, set_name, labref_token) ==
    << Token("CMD", set_name, toks[1].line_nr, set_name, None),
       make_at_token(toks, labref_token),
       [labref_token EXCEPT !.line_nr = toks[1].line_nr] >>

\* The while loop at the end of at_math and the two appends after it.
RECURSIVE at_split(_, _, _)
at_split(math_token, operation_length, operation_length_token) ==
    IF operation_length > 15
    THEN << math_token,
            Token("BIN", <<"1","1","1","1">>, math_token.line_nr, <<"1","5">>,
                  <<"Split operation length from 'at <math>' macro.">>) >>
         \o at_split(math_token, operation_length - 16,
                     [operation_length_token EXCEPT
                         !.type = "BIN",
                         !.value = bin_2(operation_length - 16),
                         !.src_text = str(operation_length - 16)])
    ELSE << math_token, operation_length_token >>

at_math(toks, context) ==
    LET math_token   == toks[2]
        operands     == SubSeq(toks, 3, Len(toks))
        explicit     == operands[Len(operands)].type # "LABREF"
        labref_tokens == IF explicit THEN SubSeq(operands, 1, Len(operands) - 1)
                         ELSE operands
        n_labrefs    == Len(labref_tokens)
        last_labref  == labref_tokens[n_labrefs]
        \* the explicit length
        length_r     == get_token_value_as_int(operands[Len(operands)])
        \* the length inferred from the allocations
        alloc(t)     == context.allocations[t.value]
        allocated    == SelectSeq(labref_tokens,
                                  LAMBDA t : is_allocated(context, t.value))
        first_alloc  == alloc(allocated[1])
        mismatches   == SelectSeq(allocated,
                                  LAMBDA t : alloc(t).size # first_alloc.size)
        operation_length ==
            IF explicit THEN length_r.value ELSE first_alloc.size - 1
        operation_length_token ==
            IF explicit THEN operands[Len(operands)]
            ELSE Token("BIN", bin_2(operation_length), toks[Len(toks)].line_nr,
                       str(operation_length),
                       <<"Operation length determined by at math macro from alloc sizes">>)
        noted_length_token ==
            IF operation_length > 15
            THEN [operation_length_token EXCEPT
                     !.note = (IF @ # <<>> THEN @ \o <<", ">> ELSE <<>>)
                              \o <<"Split operation length from 'at <math>' macro.">>]
            ELSE operation_length_token
        math_operation == lower(math_token.value)
        Err(message, line_nr) ==
            Returns(<<Token("ERR", message, line_nr, src_texts(toks), None)>>, context)
        Expand(return_tokens) ==
            Returns(return_tokens
                        \o at_split(math_token, operation_length, noted_length_token),
                    context)
    IN  IF explicit /\ length_r.raised THEN Raises(context)
        ELSE IF ~explicit /\ mismatches # <<>>
        THEN Err(<<"Size mismatch in 'at <math>' macro: '">> \o allocated[1].value
                     \o <<"' has size ">> \o str(first_alloc.size) \o <<", but '">>
                     \o mismatches[1].value \o <<"' has size ">>
                     \o str(alloc(mismatches[1]).size)
                     \o <<". If this is intentional, please specify the operation length explicitly by using '">>
                     \o src_texts(toks) \o <<" <length>'.">>,
                 mismatches[1].line_nr)
        ELSE IF ~explicit /\ allocated = <<>>
        THEN Err(<<"Could not determine operation length in 'at <math>' macro, because none of the provided labels are allocated.">>,
                 toks[1].line_nr)
        ELSE IF math_operation \in {<<"c","h","e","c","k","s","u","m">>, <<"b","c">>}
        THEN IF n_labrefs # 1
             THEN Err(<<"Incorrect number of operands for '">> \o math_operation
                          \o <<"' in 'at <math>' macro. This operation only takes one input, so provide only the source label.">>,
                      toks[1].line_nr)
             ELSE Expand(at_operand(toks, <<"s","e","t","_","a">>, labref_tokens[1]))
        ELSE IF math_operation \in {<<"m","o","v","e","_","d","a","t","a">>, <<"m","d">>, <<"i","n","v","e","r","t">>, <<"b","i">>}
        THEN IF n_labrefs > 2
             THEN Err(<<"Too many operands for '">> \o math_operation
                          \o <<"' in 'at <math>' macro. This operation only takes one input, so either give the source and destination label, or only the destination label.">>,
                      toks[1].line_nr)
             ELSE Expand((IF n_labrefs = 2
                          THEN at_operand(toks, <<"s","e","t","_","a">>, labref_tokens[1])
                          ELSE <<>>)
                         \o at_operand(toks, <<"s","e","t","_","c">>, last_labref))
        ELSE IF math_operation \in {<<"a","d","d">>, <<"+">>, <<"s","u","b","t","r","a","c","t">>, <<"-">>, <<"a","n","d">>, <<"b","a">>,
                                    <<"o","r">>, <<"b","o">>, <<"x","o","r">>, <<"b","x">>, <<"n","a","n","d">>, <<"b","n","a">>,
                                    <<"n","o","r">>, <<"b","n","o">>, <<"n","x","o","r">>, <<"b","n","x">>}
        THEN Expand((IF n_labrefs \in {2, 3}
                     THEN at_operand(toks, <<"s","e","t","_","a">>, labref_tokens[1])
                          \o at_operand(toks, <<"s","e","t","_","b">>, labref_tokens[2])
                     ELSE <<>>)
                    \o (IF n_labrefs \in {1, 3}
                        THEN at_operand(toks, <<"s","e","t","_","c">>, last_labref)
                        ELSE <<>>))
        ELSE Err(<<"Unknown math operation '">> \o math_operation
                     \o <<"' in 'at <math>' macro.">>,
                 math_token.line_nr)

\* "load" if "_" in tokens[0].src_text else "l"
load_instruction_name(toks) ==
    IF Contains(toks[1].src_text, "_") THEN <<"l","o","a","d">> ELSE <<"l">>

\* A variant of lower_4_bits that takes the first four characters.
lower_4_bits_first(binary_value) == TakeFirst(binary_value, 4)

\* binary_value[4:], "Lower 4 bits"
lower_4_bits(binary_value) == DropFirst(binary_value, 4)

\* binary_value[:4], "Upper 4 bits"
upper_4_bits(binary_value) == TakeFirst(binary_value, 4)

load_byte(toks, context) ==
    LET byte_value_token == toks[2]
        byte_value_r     == get_token_value_as_int(byte_value_token)
        byte_value       == byte_value_r.value
        binary_value     == zfill(bin_2(byte_value), 8)
        instruction_name == load_instruction_name(toks)
    IN  IF byte_value_r.raised THEN Raises(context)
        ELSE IF byte_value < 0 \/ byte_value > 255
        THEN Returns(<<Token("ERR",
                             <<"Byte value ">> \o str(byte_value)
                                 \o <<" out of range (0-255).">>,
                             byte_value_token.line_nr, src_texts(toks), None)>>,
                     context)
        ELSE Returns(<< Token("CMD", instruction_name, toks[1].line_nr,
                              instruction_name, byte_value_token.note),
                        Token("BIN", lower_4_bits(binary_value),
                              byte_value_token.line_nr, byte_value_token.src_text,
                              <<"lower 4 bits of byte ">> \o str(byte_value)),
                        Token("CMD", instruction_name, byte_value_token.line_nr,
                              instruction_name, None),
                        Token("BIN", upper_4_bits(binary_value),
                              byte_value_token.line_nr, byte_value_token.src_text,
                              <<"upper 4 bits of byte ">> \o str(byte_value)) >>,
                     context)

\* A variant of nibble_at that counts i from the other end of the value.
nibble_at_from_end(binary_value, i) == TakeFirst(DropFirst(binary_value, 12 - i), 4)

\* binary_value[i:i + 4]
nibble_at(binary_value, i) == TakeFirst(DropFirst(binary_value, i), 4)

\* The instruction and nibble tokens of load_double for i in range(i, -4, -4)
RECURSIVE load_double_pairs(_, _, _, _)
load_double_pairs(i, binary_value, double_value_token, instruction_name) ==
    IF i < 0 THEN <<>>
    ELSE << Token("CMD", instruction_name, double_value_token.line_nr,
                  instruction_name, None),
            Token("BIN", nibble_at(binary_value, i),
                  double_value_token.line_nr,
                  double_value_token.src_text \o <<"[">> \o str(i) \o <<":">>
                      \o str(i + 4) \o <<"]">>,
                  <<"nibble ">> \o str(i \div 4) \o <<" of double byte ">>
                      \o double_value_token.src_text) >>
         \o load_double_pairs(i - 4, binary_value, double_value_token,
                              instruction_name)

load_double(toks, context) ==
    LET double_value_token == toks[2]
        double_value_r     == get_token_value_as_int(double_value_token)
        double_value       == double_value_r.value
        binary_value       == zfill(bin_2(double_value), 16)
    IN  IF double_value_r.raised THEN Raises(context)
        ELSE IF double_value < 0 \/ double_value > 65535
        THEN Returns(<<Token("ERR",
                             <<"Double byte value ">> \o str(double_value)
                                 \o <<" out of range (0-65535).">>,
                             double_value_token.line_nr, src_texts(toks), None)>>,
                     context)
        ELSE Returns(load_double_pairs(12, binary_value, double_value_token,
                                       load_instruction_name(toks)),
                     context)

\* The lambda registered for "do"
do(toks, context) == Returns(<<>>, context)

\* The conditions dict of do_while_while: the keys, and the jump of a key.
while_conditions ==
    {<<"a","0">>, <<"a","_","0">>, <<"a","1">>, <<"a","_","1">>, <<"c","0">>, <<"c","_","0">>, <<"c","1">>, <<"c","_","1">>, <<"t">>, <<"t","r","i","g","g","e","r","e","d">>}

while_jump(condition) ==
    CASE condition = <<"a","0">>  -> <<"j","a","0">>
      [] condition = <<"a","_","0">> -> <<"j","u","m","p","_","i","f","_","a","_","0">>
      [] condition = <<"a","1">>  -> <<"j","a","1">>
      [] condition = <<"a","_","1">> -> <<"j","u","m","p","_","i","f","_","a","_","1">>
      [] condition = <<"c","0">>  -> <<"j","c","0">>
      [] condition = <<"c","_","0">> -> <<"j","u","m","p","_","i","f","_","c","a","r","r","y","_","0">>
      [] condition = <<"c","1">>  -> <<"j","c","1">>
      [] condition = <<"c","_","1">> -> <<"j","u","m","p","_","i","f","_","c","a","r","r","y","_","1">>
      [] condition = <<"t">>   -> <<"j","t">>
      [] condition = <<"t","r","i","g","g","e","r","e","d">> -> <<"j","u","m","p","_","i","f","_","t","r","i","g","g","e","r","e","d">>

do_while_while(toks, context) ==
    LET condition_token == toks[2]
        label_token     == toks[3]
    IN  IF condition_token.value \notin while_conditions
        THEN Returns(<<Token("ERR",
                             <<"Unknown condition '">> \o condition_token.value
                                 \o <<"' in 'while' macro. Please use one of: a0, a_0, a1, a_1, c0, c_0, c1, c_1, t, triggered.">>,
                             condition_token.line_nr, src_texts(toks), None)>>,
                     context)
        ELSE Returns(<< Token("CMD", while_jump(condition_token.value),
                              toks[1].line_nr, src_texts(SubSeq(toks, 1, 1)),
                              toks[1].note),
                        Token("LABREF", label_token.value, label_token.line_nr,
                              label_token.src_text, label_token.note) >>,
                     context)

\* The conditions dict of do_while_until
until_conditions == {<<"t">>, <<"t","r","i","g","g","e","r","e","d">>}

until_jump(condition) ==
    CASE condition = <<"t">> -> <<"j","t">>
      [] condition = <<"t","r","i","g","g","e","r","e","d">> -> <<"j","u","m","p","_","i","f","_","t","r","i","g","g","e","r","e","d">>

\* A variant of until_end_label without the two leading underscores.
until_end_label_plain(label_name) == label_name \o <<"_","e","n","d">>

\* end_label_name = f"__{label_token.value}_end"
until_end_label(label_name) == <<"_","_">> \o label_name \o <<"_","e","n","d">>

do_while_until(toks, context) ==
    LET condition_token == toks[2]
        label_token     == toks[3]
        jump_instruction == until_jump(condition_token.value)
        back_jump_instruction ==
            IF Len(condition_token.value) < 3 THEN <<"j","u","m","p">> ELSE <<"j","i">>
        end_label_name  == until_end_label(label_token.value)
        end_note        == <<"end label for until loop '">> \o label_token.value
                               \o <<"'">>
    IN  IF condition_token.value \notin until_conditions
        THEN Returns(<<Token("ERR",
                             <<"Unknown condition '">> \o condition_token.value
                                 \o <<"' in 'until' macro. Please use one of: t, triggered.">>,
                             condition_token.line_nr, src_texts(toks), None)>>,
                     context)
        ELSE Returns(<< Token("CMD", jump_instruction, toks[1].line_nr,
                              toks[1].src_text \o <<" ">> \o condition_token.src_text,
                              toks[1].note),
                        Token("LABREF", end_label_name, toks[1].line_nr,
                              <<":">> \o end_label_name, end_note),
                        Token("CMD", back_jump_instruction, label_token.line_nr,
                              label_token.src_text, label_token.note),
                        Token("LABREF", label_token.value, label_token.line_nr,
                              label_token.src_text, label_token.note),
                        Token("LABEL", end_label_name, label_token.line_nr,
                              <<":">> \o end_label_name, end_note) >>,
                     context)

\* The signatures of the at_math entries for i label references:
\* [CMD] + [LABREF] * i + [j] for j in BIN, DECIMAL, HEXADECIMAL, then
\* [CMD] + [LABREF] * i.
at_math_macros(i) ==
    LET labrefs == [k \in 1..i |-> "LABREF"]
    IN  << Macro(<<"a","t">>, <<"CMD">> \o labrefs \o <<"BIN">>, "at_math"),
           Macro(<<"a","t">>, <<"CMD">> \o labrefs \o <<"DECIMAL">>, "at_math"),
           Macro(<<"a","t">>, <<"CMD">> \o labrefs \o <<"HEXADECIMAL">>, "at_math"),
           Macro(<<"a","t">>, <<"CMD">> \o labrefs, "at_math") >>

\* The registry, in the order of the MACROS.append calls.
MACROS ==
    << Macro(<<"d","e","f","i","n","e">>, <<"LABEL", "BIN">>, "define"),
       Macro(<<"d","e","f","i","n","e">>, <<"LABEL", "DECIMAL">>, "define"),
       Macro(<<"d","e","f","i","n","e">>, <<"LABEL", "HEXADECIMAL">>, "define"),
       Macro(<<"d","e","f","i","n","e">>, <<"LABEL", "CMD">>, "define"),
       Macro(<<"u","s","e">>, <<"LABREF">>, "use"),
       Macro(<<"m","a","l","l","o","c">>, <<"LABEL", "BIN">>, "malloc"),
       Macro(<<"m","a","l","l","o","c">>, <<"LABEL", "DECIMAL">>, "malloc"),
       Macro(<<"m","a","l","l","o","c">>, <<"LABEL", "HEXADECIMAL">>, "malloc") >>
    \o at_math_macros(3) \o at_math_macros(2) \o at_math_macros(1)
    \o << Macro(<<"a","t">>, <<"LABREF">>, "at"),
          Macro(<<"l","o","a","d","_","b","y","t","e">>, <<"BIN">>, "load_byte"),
          Macro(<<"l","o","a","d","_","b","y","t","e">>, <<"DECIMAL">>, "load_byte"),
          Macro(<<"l","o","a","d","_","b","y","t","e">>, <<"HEXADECIMAL">>, "load_byte"),
          Macro(<<"l","b">>, <<"BIN">>, "load_byte"),
          Macro(<<"l","b">>, <<"DECIMAL">>, "load_byte"),
          Macro(<<"l","b">>, <<"HEXADECIMAL">>, "load_byte"),
          Macro(<<"l","o","a","d","_","d","o","u","b","l","e">>, <<"BIN">>, "load_double"),
          Macro(<<"l","o","a","d","_","d","o","u","b","l","e">>, <<"DECIMAL">>, "load_double"),
          Macro(<<"l","o","a","d","_","d","o","u","b","l","e">>, <<"HEXADECIMAL">>, "load_double"),
          Macro(<<"l","d">>, <<"BIN">>, "load_double"),
          Macro(<<"l","d">>, <<"DECIMAL">>, "load_double"),
          Macro(<<"l","d">>, <<"HEXADECIMAL">>, "load_double"),
          Macro(<<"d","o">>, <<>>, "do"),
          Macro(<<"w","h","i","l","e">>, <<"CMD", "LABREF">>, "do_while_while"),
          Macro(<<"u","n","t","i","l">>, <<"CMD", "LABREF">>, "do_while_until") >>

\* macro.process(consumed, ctx)
process(macro, toks, context) ==
    CASE macro.process = "define"         -> define(toks, context)
      [] macro.process = "use"            -> use(toks, context)
      [] macro.process = "malloc"         -> malloc(toks, context)
      [] macro.process = "at_math"        -> at_math(toks, context)
      [] macro.process = "at"             -> at(toks, context)
      [] macro.process = "load_byte"      -> load_byte(toks, context)
      [] macro.process = "load_double"    -> load_double(toks, context)
      [] macro.process = "do"             -> do(toks, context)
      [] macro.process = "do_while_while" -> do_while_while(toks, context)
      [] macro.process = "do_while_until" -> do_while_until(toks, context)

----------------------------------------------------------------------------
(* preprocessor.py *)

\* A variant of matches_ahead for a loop that starts over from the first
\* entry after every expansion.
matches_anywhere(m, i, toks) ==
    {p \in (1..Len(MACROS)) \X (0..(Len(toks) - 1)) :
        tokens_match_macro(MACROS[p[1]], DropFirst(toks, p[2]))}

\* The positions the two nested loops of preprocess_tokens have yet to visit
\* from entry m (1-based) and position i (0-based) at which the entry matches.
matches_ahead(m, i, toks) ==
    {p \in (m..Len(MACROS)) \X (0..(Len(toks) - 1)) :
        /\ p[1] > m \/ p[2] >= i
        /\ tokens_match_macro(MACROS[p[1]], DropFirst(toks, p[2]))}

\* The first of them in the order of the loops: the loops run on to it over
\* the steps that only advance i or move to the next entry.
next_match(m, i, toks) ==
    LET ahead == matches_ahead(m, i, toks)
        first == CHOOSE p \in ahead :
                     \A q \in ahead : p[1] < q[1] \/ (p[1] = q[1] /\ p[2] <= q[2])
    IN  IF ahead = {} THEN [found |-> FALSE, m |-> Len(MACROS) + 1, i |-> 0]
        ELSE [found |-> TRUE, m |-> first[1], i |-> first[2]]

\* Macro.consume_tokens: (consumed, remaining) of a prefix that matches
consume_tokens(macro, toks) ==
    [consumed  |-> TakeFirst(toks, macro_len(macro)),
     remaining |-> DropFirst(toks, macro_len(macro))]

\* macro_names of preprocess_tokens
macro_names == {MACROS[m].name : m \in 1..Len(MACROS)}

\* argument_options of preprocess_tokens for a macro name
argument_options(name) ==
    LET entries == SelectSeq(MACROS, LAMBDA macro : macro.name = name)
        option(macro) ==
            <<"[">> \o join(<<", ">>,
                            [k \in 1..Len(macro.operands) |->
                                <<get_token_type_name(macro.operands[k])>>])
                    \o <<"]">>
    IN  join(<<", or ">>, [k \in 1..Len(entries) |-> option(entries[k])])

\* A variant of reject_macro_name that leaves the token as it is.
keep_macro_name(token) == token

\* The last loop of preprocess_tokens, for one token
reject_macro_name(token) ==
    IF token.type = "CMD" /\ token.value \in macro_names
    THEN [token EXCEPT
             !.type = "ERR",
             !.value = <<"Macro '">> \o token.value
                           \o <<"' usage is incorrect. The argument options are: ">>
                           \o argument_options(token.value) \o <<".">>]
    ELSE token

----------------------------------------------------------------------------
(* onebpc.py: the instruction table Memory_Map imports *)

\* Instruction(opcode, names, operands); operands None is has_operands FALSE.
Instruction(opcode, names, has_operands, operands) ==
    [opcode |-> opcode, names |-> names, has_operands |-> has_operands,
     operands |-> operands]

INSTRUCTIONS ==
    << Instruction(<<"0","0","0","0","0","0","0","0","0","0">>, <<<<"h","a","l","t">>>>, FALSE, <<>>),
       Instruction(<<"0","0","0","0","0","0","0","0","0","1">>, <<<<"j","u","m","p">>, <<"j","i">>>>, TRUE, <<"LABREF">>),
       Instruction(<<"0","0","0","0","0","0","0","0","1","0">>, <<<<"j","u","m","p","_","i","f","_","t","r","i","g","g","e","r","e","d">>, <<"j","t">>>>, TRUE, <<"LABREF">>),
       Instruction(<<"0","0","0","0","0","0","0","0","1","1">>, <<<<"j","u","m","p","_","i","f","_","a","_","0">>, <<"j","a","0">>>>, TRUE, <<"LABREF">>),
       Instruction(<<"0","0","0","0","0","0","0","1","0","0">>, <<<<"j","u","m","p","_","i","f","_","a","_","1">>, <<"j","a","1">>>>, TRUE, <<"LABREF">>),
       Instruction(<<"0","0","0","0","0","0","0","1","0","1">>, <<<<"j","u","m","p","_","i","f","_","c","a","r","r","y","_","0">>, <<"j","c","0">>>>, TRUE, <<"LABREF">>),
       Instruction(<<"0","0","0","0","0","0","0","1","1","0">>, <<<<"j","u","m","p","_","i","f","_","c","a","r","r","y","_","1">>, <<"j","c","1">>>>, TRUE, <<"LABREF">>),
       Instruction(<<"0","0","0","0","0","1">>, <<<<"l","o","a","d">>, <<"l">>>>, TRUE, <<"BIN">>),
       Instruction(<<"0","1">>, <<<<"s","e","t","_","a">>>>, TRUE, <<"BIN">>),
       Instruction(<<"1","0">>, <<<<"s","e","t","_","b">>>>, TRUE, <<"BIN">>),
       Instruction(<<"1","1">>, <<<<"s","e","t","_","c">>>>, TRUE, <<"BIN">>),
       Instruction(<<"0","0","0","0","1","0">>, <<<<"c","h","e","c","k","s","u","m">>, <<"b","c">>>>, TRUE, <<"BIN">>),
       Instruction(<<"0","0","0","0","1","1">>, <<<<"m","o","v","e","_","d","a","t","a">>, <<"m","d">>>>, TRUE, <<"BIN">>),
       Instruction(<<"0","0","0","1","0","0">>, <<<<"i","n","v","e","r","t">>, <<"b","i">>>>, TRUE, <<"BIN">>),
       Instruction(<<"0","0","0","1","0","1">>, <<<<"a","d","d">>, <<"+">>>>, TRUE, <<"BIN">>),
       Instruction(<<"0","0","0","1","1","0">>, <<<<"s","u","b","t","r","a","c","t">>, <<"-">>>>, TRUE, <<"BIN">>),
       Instruction(<<"0","0","0","1","1","1">>, <<<<"a","n","d">>, <<"b","a">>>>, TRUE, <<"BIN">>),
       Instruction(<<"0","0","1","0","0","0">>, <<<<"o","r">>, <<"b","o">>>>, TRUE, <<"BIN">>),
       Instruction(<<"0","0","1","0","0","1">>, <<<<"x","o","r">>, <<"b","x">>>>, TRUE, <<"BIN">>) >>

----------------------------------------------------------------------------
(* memory_map.py *)

WORD_LENGTH == 10

\* The loop `for instr in INSTRUCTIONS: if token.value in instr.names`: the
\* index of the first instruction with the name, 0 for None.
RECURSIVE find_instruction_from(_, _)
find_instruction_from(k, name) ==
    IF k > Len(INSTRUCTIONS) THEN 0
    ELSE IF \E n \in 1..Len(INSTRUCTIONS[k].names) : INSTRUCTIONS[k].names[n] = name
    THEN k
    ELSE find_instruction_from(k + 1, name)

find_instruction(name) == find_instruction_from(1, name)

\* A note: (address, line_nr, NoteType, message)
Note(address, line_nr, note_type, message) ==
    <<address, line_nr, note_type, message>>

\* (" Note: " + token.note if token.note else "")
note_suffix(token) == IF token.note # <<>> THEN <<" Note: ">> \o token.note ELSE <<>>

\* "', '".join([get_token_type_name(t) for t in instruction.operands])
operand_type_names(instruction) ==
    join(<<"', '">>, [k \in 1..Len(instruction.operands) |->
                         <<get_token_type_name(instruction.operands[k])>>])

accepts(instruction, token_type) ==
    \E k \in 1..Len(instruction.operands) : instruction.operands[k] = token_type

\* A variant of append_to_last that appends the token twice.
append_twice_to_last(groups, token) ==
    [groups EXCEPT ![Len(groups)] = @ \o <<token, token>>]

\* map[-1].append(token)
append_to_last(groups, token) ==
    [groups EXCEPT ![Len(groups)] = Append(@, token)]

\* _convert_tokens_to_word: the word, and the notes it appends.
Word(word, new_notes) == [word |-> word, notes |-> new_notes]

\* A variant of fit_word that reports a value longer than the word and
\* returns it uncut.
fit_word_uncut(value, address, line_nr, message) ==
    IF Len(value) > WORD_LENGTH
    THEN [word |-> value, notes |-> <<<<address, line_nr, "ERROR", message>>>>]
    ELSE [word |-> zfill(value, WORD_LENGTH), notes |-> <<>>]

\* A value that fits the word is padded with zeros on the left, a longer one
\* is cut to its first WORD_LENGTH characters and reported.
fit_word(value, address, line_nr, message) ==
    IF Len(value) > WORD_LENGTH
    THEN Word(TakeFirst(value, WORD_LENGTH),
              <<Note(address, line_nr, "ERROR", message)>>)
    ELSE Word(zfill(value, WORD_LENGTH), <<>>)

\* A variant of bin_address that keeps the "0b" prefix of bin().
bin_address_prefixed(label_table, label_name) == bin(label_table[label_name])

\* bin_address = bin(self.labels[label_name])[2:]
bin_address(label_table, label_name) == bin_2(label_table[label_name])

\* A variant of operand_field that leaves the operand as it is.
operand_field_unpadded(opcode, operand_value) == operand_value

\* operand_value.zfill(WORD_LENGTH - len(opcode))
operand_field(opcode, operand_value) ==
    zfill(operand_value, WORD_LENGTH - Len(opcode))

convert_tokens_to_word(toks, address, label_table) ==
    LET first_token == toks[1]
        extra(what) ==
            IF Len(toks) # 1
            THEN <<Note(address, first_token.line_nr, "ERROR",
                        <<"Internal error: Extra tokens found after ", what, ".">>)>>
            ELSE <<>>
        then(new_notes, w) == Word(w.word, new_notes \o w.notes)
    IN  IF toks = <<>> THEN Word(Zeros(WORD_LENGTH), <<>>)
        ELSE IF Len(toks) > 2
        THEN Word(Zeros(WORD_LENGTH),
                  <<Note(address, first_token.line_nr, "ERROR",
                         <<"Internal error: Too many tokens to fit in one memory word.">>)>>)
        ELSE IF first_token.type = "ERR" THEN Word(Zeros(WORD_LENGTH), <<>>)
        ELSE IF first_token.type = "BIN"
        THEN then(extra("binary data"),
                  fit_word(first_token.value, address, first_token.line_nr,
                           <<"Error: Binary value '">> \o first_token.value
                               \o <<"' exceeds word length of ">> \o str(WORD_LENGTH)
                               \o <<".">>))
        ELSE IF first_token.type = "LABREF"
        THEN LET label_name == first_token.value
             IN  IF label_name \notin DOMAIN label_table
                 THEN then(extra("label reference"),
                           Word(Zeros(WORD_LENGTH),
                                <<Note(address, first_token.line_nr, "ERROR",
                                       <<"Error: Undefined label reference '">>
                                           \o label_name \o <<"'.">>)>>))
                 ELSE then(extra("label reference")
                               \o <<Note(address, first_token.line_nr, "INFO",
                                         <<"Points to label '">> \o label_name
                                             \o <<"'">>)>>,
                           fit_word(bin_address(label_table, label_name), address,
                                    first_token.line_nr,
                                    <<"Error: Address of label '">> \o label_name
                                        \o <<"' exceeds word length of ">>
                                        \o str(WORD_LENGTH) \o <<".">>))
        ELSE IF first_token.type = "CMD"
        THEN LET k      == find_instruction(first_token.value)
                 opcode == INSTRUCTIONS[k].opcode
             IN  IF k = 0
                 THEN Word(Zeros(WORD_LENGTH),
                           <<Note(address, first_token.line_nr, "ERROR",
                                  <<"Internal error: Unknown instruction '">>
                                      \o first_token.value
                                      \o <<"' during binary conversion.">>)>>)
                 ELSE IF Len(toks) = 1
                 THEN fit_word(opcode, address, first_token.line_nr,
                               <<"Error: Opcode '">> \o opcode
                                   \o <<"' exceeds word length of ">>
                                   \o str(WORD_LENGTH) \o <<".">>)
                 ELSE LET operand_token == toks[2]
                          is_bin        == operand_token.type = "BIN"
                          operand_value == IF is_bin THEN operand_token.value ELSE <<>>
                          full_value    == opcode \o operand_field(opcode, operand_value)
                      IN  then(IF is_bin THEN <<>>
                               ELSE <<Note(address, operand_token.line_nr, "ERROR",
                                           <<"Internal error: Unexpected operand type TokenType.",
                                             operand_token.type,
                                             " during binary conversion.">>)>>,
                               fit_word(full_value, address, first_token.line_nr,
                                        <<"Error: Combined opcode and operand '">>
                                            \o full_value
                                            \o <<"' exceeds word length of ">>
                                            \o str(WORD_LENGTH) \o <<".">>))
        ELSE Word(Zeros(WORD_LENGTH),
                  <<Note(address, first_token.line_nr, "ERROR",
                         <<"Internal error: Unexpected token type TokenType.",
                           first_token.type, " during binary conversion.">>)>>)

\* _convert_to_binary over the groups from address k (0-based) on: the words
\* and the notes appended, in order.
RECURSIVE convert_to_binary_from(_, _, _)
convert_to_binary_from(k, groups, label_table) ==
    IF k >= Len(groups) THEN [binary |-> <<>>, notes |-> <<>>]
    ELSE LET w == convert_tokens_to_word(groups[k + 1], k, label_table)
         IN  [convert_to_binary_from(k + 1, groups, label_table) EXCEPT
                 !.binary = <<w.word>> \o @,
                 !.notes  = w.notes \o @]

----------------------------------------------------------------------------
(* main.py: the notes get_output lists and print_notes prints *)

\* NoteType(Enum).value
NoteTypeValue(note_type) ==
    CASE note_type = "ERROR"   -> 1
      [] note_type = "WARNING" -> 2
      [] note_type = "COMMENT" -> 3
      [] note_type = "INFO"    -> 4

\* The values of --note-level, and "None" for a run without the option
NoteLevels == {"None", "ERROR", "WARNING", "COMMENT", "INFO"}

\* A variant of passes_note_level that stops at the level itself.
passes_note_level_below(note_type, note_level) ==
    NoteTypeValue(note_type) < NoteTypeValue(note_level)

\* The negation of the test `note_type.value > note_level.value` that makes
\* both functions skip a note
passes_note_level(note_type, note_level) ==
    ~(NoteTypeValue(note_type) > NoteTypeValue(note_level))

\* sorted(seq, key=...) and list.sort(key=...): a stable sort of seq by the
\* keys, key[i] being the key of seq[i], a pair compared as Python compares
\* tuples.
sorted_by_key(seq, key) ==
    LET before(i, j) ==
            \/ key[i][1] < key[j][1]
            \/ key[i][1] = key[j][1] /\ key[i][2] < key[j][2]
        place(i) ==
            1 + Cardinality({j \in 1..Len(seq) :
                                before(j, i) \/ (~before(i, j) /\ j < i)})
    IN  [p \in 1..Len(seq) |-> seq[CHOOSE i \in 1..Len(seq) : place(i) = p]]

\* key=lambda n: (n[2].value, n[0]) of print_notes, for every note
keys_by_type_and_address(all_notes) ==
    [k \in 1..Len(all_notes) |-> <<NoteTypeValue(all_notes[k][3]), all_notes[k][1]>>]

\* key=lambda n: n[1].value of get_output, on (line_nr, note_type, note_text)
keys_by_type(entries) ==
    [k \in 1..Len(entries) |-> <<NoteTypeValue(entries[k][2]), 0>>]

\* `if not note_level: note_level = NoteType.WARNING`
effective_note_level(note_level) ==
    IF note_level = "None" THEN "WARNING" ELSE note_level

\* print_notes: the notes printed, in order, and the two counts of the last
\* line.
print_notes(all_notes, note_level) ==
    LET ordered == sorted_by_key(all_notes, keys_by_type_and_address(all_notes))
        level   == effective_note_level(note_level)
    IN  [printed  |-> SelectSeq(ordered,
                                LAMBDA note : passes_note_level(note[3], level)),
         errors   |-> Cardinality({k \in 1..Len(all_notes) :
                                      all_notes[k][3] = "ERROR"}),
         warnings |-> Cardinality({k \in 1..Len(all_notes) :
                                      all_notes[k][3] = "WARNING"})]

\* (line_nr, note_type, note_text) of a note
listed(note) == <<note[2], note[3], note[4]>>

\* get_output, the notes of one address: skipped_notes and notes after their
\* sort, and last_line_number as the iteration leaves it.
output_of_address(address, last_line_number, groups, all_notes, options) ==
    LET toks      == groups[address + 1]
        leveled   == options.note_level # "None"
        spreading == options.spread_notes /\ leveled
        current_line_number == toks[1].line_nr
        skipped   == IF spreading
                     THEN SelectSeq(all_notes, LAMBDA note :
                              /\ passes_note_level(note[3], options.note_level)
                              /\ note[2] > last_line_number
                              /\ note[2] < current_line_number)
                     ELSE <<>>
        kept      == IF leveled
                     THEN SelectSeq(all_notes, LAMBDA note :
                              /\ note[1] = address
                              /\ passes_note_level(note[3], options.note_level)
                              /\ ~(options.spread_notes /\ note[2] < toks[1].line_nr))
                     ELSE <<>>
        noted     == SelectSeq(toks, LAMBDA token : token.note # <<>>)
        token_notes == IF options.add_token_notes
                       THEN [k \in 1..Len(noted) |->
                                <<noted[k].line_nr, "INFO", noted[k].note>>]
                       ELSE <<>>
        skipped_entries == [k \in 1..Len(skipped) |-> listed(skipped[k])]
        entries   == [k \in 1..Len(kept) |-> listed(kept[k])] \o token_notes
    IN  [skipped_notes |-> sorted_by_key(skipped_entries, keys_by_type(skipped_entries)),
         notes |-> sorted_by_key(entries, keys_by_type(entries)),
         last_line_number |-> IF spreading THEN current_line_number
                              ELSE last_line_number]

\* get_output: for every address of memory_map.binary, in order, the notes
\* listed above its line and on it.
RECURSIVE get_output_from(_, _, _, _, _, _)
get_output_from(address, last_line_number, words, groups, all_notes, options) ==
    IF address >= Len(words) THEN <<>>
    ELSE LET o == output_of_address(address, last_line_number, groups, all_notes,
                                    options)
         IN  <<[skipped_notes |-> o.skipped_notes, notes |-> o.notes]>>
                 \o get_output_from(address + 1, o.last_line_number, words, groups,
                                    all_notes, options)

get_output(words, groups, all_notes, options) ==
    get_output_from(0, 0, words, groups, all_notes, options)

\* The parsed command line: note_level of --note-level, and the flags
\* --spread-notes, --add-token-notes and --auto-recompile.
Args(note_level, spread_notes, add_token_notes, auto_recompile) ==
    [main |-> TRUE, note_level |-> note_level, spread_notes |-> spread_notes,
     add_token_notes |-> add_token_notes, auto_recompile |-> auto_recompile]

\* compile_source called on its own, not from the command line
NoArgs ==
    [main |-> FALSE, note_level |-> "None", spread_notes |-> FALSE,
     add_token_notes |-> FALSE, auto_recompile |-> FALSE]

\* The texts the watched source file holds over a run of the program: one
\* that defines a name and allocates memory and uses both, one that uses the
\* same names without defining them, and one without macros whose notes are
\* of three severities.
DefiningFile == << <<"d","e","f","i","n","e"," ","k",":"," ","5"," ","m","a","l","l","o","c"," ","a",":"," ","4">>, <<"l","o","a","d"," ","u","s","e"," ",":","k">>, <<"l"," ","a","t"," ",":","a">> >>

UsingFile == << <<"m","a","l","l","o","c"," ","b",":"," ","2">>, <<"l","o","a","d"," ","u","s","e"," ",":","k">>, <<"l"," ","a","t"," ",":","a">>, <<"l"," ","a","t"," ",":","b">> >>

PlainFile == << <<"x",":"," ","h","a","l","t"," ","/","/"," ","c">>, <<"f","r","o","b">>, <<"%","1">> >>

\* A text without errors, and the same text with the name of the instruction
\* of line k mistyped
ErrorFreeFile == << <<"j","u","m","p"," ",":","y">>, <<"l","o","a","d"," ","%","1">>, <<"y",":">>, <<"h","a","l","t">> >>

with_typo(lines, k) ==
    [lines EXCEPT ![k] = <<"f","r","o","b">> \o DropFirst(@, WordLen(@))]

TypoFiles == {with_typo(ErrorFreeFile, k) : k \in {1, 2, 4}}

Files == {DefiningFile, UsingFile, PlainFile} \cup TypoFiles

\* The most runs of compile_and_output in one run of the program
MaxCompilations == 3

----------------------------------------------------------------------------
(* main.py: compile_source, one action per stage or loop iteration *)

\* The state at the call of compile_source on one of the given sources.
\* raised (declared with the variables) says that an exception has left
\* compile_source, out of the stage pc names.
Start(sources) ==
    /\ source \in sources
    /\ pc = "tokenize"
    /\ raised = FALSE
    /\ tokens = <<>>
    /\ ctx = EmptyContext
    /\ macro_idx = 1
    /\ scan_i = 0
    /\ consumed = <<>>
    /\ new_tokens = <<>>
    /\ map = <<>>
    /\ labels = <<>>
    /\ notes = <<>>
    /\ map_i = 0
    /\ is_reachable = TRUE
    /\ binary = <<>>
    /\ args = NoArgs
    /\ output = <<>>
    /\ printed = <<>>
    /\ compiled = <<>>

\* A variant of fresh_context that hands on the context of the call before.
kept_context == ctx

\* ctx: dict = {} at the head of preprocess_tokens
fresh_context == EmptyContext

\* tokens = tokenize(source_code), and the call of preprocess_tokens with its
\* new context and the loops at their start
Tokenize ==
    /\ pc = "tokenize" /\ ~raised
    /\ LET r == tokenize(source)
       IN  IF r.raised
           THEN /\ raised' = TRUE
                /\ UNCHANGED <<pc, tokens>>
                /\ UNCHANGED <<ctx, macro_idx, scan_i, consumed, new_tokens>>
           ELSE /\ tokens' = r.tokens
                /\ pc' = "preprocess"
                /\ ctx' = fresh_context
                /\ macro_idx' = 1
                /\ scan_i' = 0
                /\ consumed' = <<>>
                /\ new_tokens' = <<>>
                /\ UNCHANGED raised
    /\ UNCHANGED <<source, map, labels, notes, map_i, is_reachable, binary>>
    /\ UNCHANGED main_vars

\* preprocess_tokens: the loops run on to the next position where the macro
\* matches, and the macro is applied there; i is not advanced.
ExpandMacro ==
    /\ pc = "preprocess" /\ ~raised
    /\ LET at_match == next_match(macro_idx, scan_i, tokens)
           macro == MACROS[at_match.m]
           c     == consume_tokens(macro, DropFirst(tokens, at_match.i))
           r     == process(macro, c.consumed, ctx)
       IN  /\ at_match.found
           /\ macro_idx' = at_match.m
           /\ scan_i' = at_match.i
           /\ consumed' = c.consumed
           /\ IF r.raised
              THEN /\ raised' = TRUE
                   /\ UNCHANGED <<tokens, ctx, new_tokens>>
              ELSE /\ new_tokens' = r.tokens
                   /\ ctx' = r.ctx
                   /\ tokens' = TakeFirst(tokens, at_match.i) \o r.tokens
                                    \o c.remaining
                   /\ UNCHANGED raised
    /\ UNCHANGED <<source, pc, map, labels, notes, map_i, is_reachable, binary>>
    /\ UNCHANGED main_vars

\* preprocess_tokens: no entry matches any more; the last loop turns what is
\* left of the macro names into Error tokens, and the function returns.
FinishPreprocess ==
    /\ pc = "preprocess" /\ ~raised
    /\ ~next_match(macro_idx, scan_i, tokens).found
    /\ tokens' = [k \in 1..Len(tokens) |-> reject_macro_name(tokens[k])]
    /\ macro_idx' = Len(MACROS) + 1
    /\ scan_i' = 0
    /\ pc' = "convert"
    /\ UNCHANGED <<source, raised, ctx, consumed, new_tokens,
                   map, labels, notes, map_i, is_reachable, binary>>
    /\ UNCHANGED main_vars

\* tokens = convert_numbers_to_binary(tokens), then Memory_Map.__init__ up to
\* the call of _process_tokens.  int() raises on a text that is no number.
ConvertNumbers ==
    /\ pc = "convert" /\ ~raised
    /\ IF \E k \in 1..Len(tokens) :
             \/ tokens[k].type = "DECIMAL" /\ ~int_ok(tokens[k].value, 10)
             \/ tokens[k].type = "HEXADECIMAL" /\ ~int_ok(tokens[k].value, 16)
       THEN /\ raised' = TRUE
            /\ UNCHANGED <<pc, tokens>>
       ELSE /\ tokens' = convert_numbers_to_binary(tokens)
            /\ pc' = "map"
            /\ UNCHANGED raised
    /\ map' = <<>>
    /\ binary' = <<>>
    /\ labels' = <<>>
    /\ notes' = <<>>
    /\ map_i' = 0
    /\ is_reachable' = TRUE
    /\ UNCHANGED <<source, ctx, macro_idx, scan_i, consumed, new_tokens>>
    /\ UNCHANGED main_vars

\* The locals of one iteration of the while loop of _process_tokens
token_at(i) == tokens[i + 1]

prev_addr == IF map # <<>> THEN Len(map) - 1 ELSE 0

\* A variant of next_addr that counts the tokens passed, not the words made.
next_addr_counting_tokens == map_i

next_addr == Len(map)

Mapping == pc = "map" /\ ~raised /\ map_i < Len(tokens)

\* A Comment or Info token: a note, no address.
MapCommentOrInfo ==
    /\ Mapping
    /\ token_at(map_i).type \in {"COMMENT", "INFO"}
    /\ notes' = Append(notes, Note(prev_addr, token_at(map_i).line_nr,
                                   token_at(map_i).type, token_at(map_i).value))
    /\ map_i' = map_i + 1
    /\ UNCHANGED <<source, pc, raised, tokens, ctx, macro_idx, scan_i, consumed,
                   new_tokens, map, labels, is_reachable, binary>>
    /\ UNCHANGED main_vars

\* An Error token: a note, and a halt instruction in its place.
MapError ==
    /\ Mapping
    /\ token_at(map_i).type = "ERR"
    /\ notes' = Append(notes, Note(next_addr, token_at(map_i).line_nr, "ERROR",
                                   token_at(map_i).value))
    /\ map' = Append(map, <<Token("CMD", <<"h","a","l","t">>, token_at(map_i).line_nr,
                                  token_at(map_i).src_text, token_at(map_i).note)>>)
    /\ map_i' = map_i + 1
    /\ UNCHANGED <<source, pc, raised, tokens, ctx, macro_idx, scan_i, consumed,
                   new_tokens, labels, is_reachable, binary>>
    /\ UNCHANGED main_vars

\* A variant of MapLabel that reports a bound name and binds it again.
MapLabelRebinding ==
    /\ Mapping
    /\ token_at(map_i).type = "LABEL"
    /\ LET label_name == token_at(map_i).value
       IN  /\ notes' = IF label_name \in DOMAIN labels
                       THEN Append(notes,
                                   Note(next_addr, token_at(map_i).line_nr, "ERROR",
                                        <<"Duplicate label '">> \o label_name
                                            \o <<"'">>))
                       ELSE notes
           /\ labels' = dict_set(labels, label_name, next_addr)
    /\ is_reachable' = TRUE
    /\ map_i' = map_i + 1
    /\ UNCHANGED <<source, pc, raised, tokens, ctx, macro_idx, scan_i, consumed,
                   new_tokens, map, binary>>
    /\ UNCHANGED main_vars

\* A Label token: bound to the next address, unless the name is bound.
MapLabel ==
    /\ Mapping
    /\ token_at(map_i).type = "LABEL"
    /\ LET label_name == token_at(map_i).value
       IN  IF label_name \in DOMAIN labels
           THEN /\ notes' = Append(notes,
                                   Note(next_addr, token_at(map_i).line_nr, "ERROR",
                                        <<"Duplicate label '">> \o label_name
                                            \o <<"'">>))
                /\ UNCHANGED labels
           ELSE /\ labels' = dict_set(labels, label_name, next_addr)
                /\ UNCHANGED notes
    /\ is_reachable' = TRUE
    /\ map_i' = map_i + 1
    /\ UNCHANGED <<source, pc, raised, tokens, ctx, macro_idx, scan_i, consumed,
                   new_tokens, map, binary>>
    /\ UNCHANGED main_vars

\* Raw binary data: its own address, and a warning where code is expected.
MapBinary ==
    /\ Mapping
    /\ token_at(map_i).type = "BIN"
    /\ map' = Append(map, <<token_at(map_i)>>)
    /\ notes' = IF is_reachable
                THEN Append(notes,
                            Note(next_addr, token_at(map_i).line_nr, "WARNING",
                                 <<"You put raw data where it might be read as instructions. You might have given an argument to an instruction that doesn't expect one, or put raw data right after a label or at the start of the program.">>))
                ELSE notes
    /\ map_i' = map_i + 1
    /\ UNCHANGED <<source, pc, raised, tokens, ctx, macro_idx, scan_i, consumed,
                   new_tokens, labels, is_reachable, binary>>
    /\ UNCHANGED main_vars

\* A variant of unknown_instruction_group that keeps the Command token.
unknown_instruction_kept(token) == <<token>>

\* self.map.append([error_token]) of an unknown instruction
unknown_instruction_group(token) ==
    <<Token("ERR", <<"Unknown instruction '">> \o token.value \o <<"'">>,
            token.line_nr, token.src_text, None)>>

\* A variant of invalid_operand_own_word: the placement by the kind of the
\* operand.
invalid_operand_own_word_by_kind(instruction, operand) ==
    operand.type = "LABREF"

\* `if TokenType.LABREF in instruction.operands` of the invalid-operand
\* branch: the operand goes on a memory word of its own when the instruction
\* expects a label reference, whatever the operand is.
invalid_operand_own_word(instruction, operand) ==
    accepts(instruction, "LABREF")

\* The notes, the groups, the index and the flag an instruction (a Command
\* token) leaves: the body of `elif token.type == TokenType.CMD`.
process_command(token, i, groups, reachable) ==
    LET addr        == Len(groups)
        unreachable == IF ~reachable
                       THEN <<Note(addr, token.line_nr, "WARNING",
                                   <<"Unreachable code. This code cannot be reached during execution because it comes after a halt or unconditional jump, and no label points to it.">>)>>
                       ELSE <<>>
        k           == find_instruction(token.value)
        instruction == INSTRUCTIONS[k]
        groups1     == Append(groups, <<token>>)
        reachable1  == instruction.names[1] \notin {<<"h","a","l","t">>, <<"j","u","m","p">>}
        Result(new_notes, new_groups, new_i, new_reachable) ==
            [notes |-> unreachable \o new_notes, map |-> new_groups, i |-> new_i,
             is_reachable |-> new_reachable]
        operand_token == token_at(i + 1)
        in_error    == operand_token.type = "ERR"
        error_note  == Note(addr, operand_token.line_nr, "ERROR",
                            <<"Operand for instruction '">> \o token.value
                                \o <<"' has an error: ">> \o operand_token.value
                                \o note_suffix(operand_token))
        \* the operand after the check for an Error token
        operand     == IF in_error
                       THEN Token("BIN", <<"0">>, operand_token.line_nr,
                                  operand_token.src_text, None)
                       ELSE operand_token
        first_notes == IF in_error THEN <<error_note>> ELSE <<>>
        invalid_note == Note(addr, operand.line_nr, "ERROR",
                             <<"Invalid operand for instruction '">> \o token.value
                                 \o <<"': expected one of ['">>
                                 \o operand_type_names(instruction)
                                 \o <<"'], got '", get_token_type_name(operand.type),
                                      "' with value '">>
                                 \o operand.value \o <<"'.">> \o note_suffix(operand))
    IN  IF k = 0
        THEN Result(<<Note(addr, token.line_nr, "ERROR",
                           <<"Unknown instruction '">> \o token.value \o <<"'">>)>>,
                    Append(groups, unknown_instruction_group(token)),
                    i + 1, TRUE)
        ELSE IF ~instruction.has_operands
        THEN Result(<<>>, groups1, i + 1, reachable1)
        ELSE IF i + 1 >= Len(tokens)
        THEN Result(<<Note(addr, token.line_nr, "ERROR",
                           <<"Instruction '">> \o token.value
                               \o <<"' expects an operand, but it was the end of the file.">>)>>,
                    groups1, i + 1, reachable1)
        ELSE IF in_error /\ accepts(instruction, "LABREF")
        THEN Result(<<error_note>>, groups1, i + 2, reachable1)
        ELSE IF ~accepts(instruction, operand.type)
        THEN Result(first_notes \o <<invalid_note>>,
                    IF invalid_operand_own_word(instruction, operand)
                    THEN Append(groups1, <<operand>>)
                    ELSE append_to_last(groups1, operand),
                    i + 2, reachable1)
        ELSE Result(first_notes,
                    IF operand.type = "LABREF"
                    THEN Append(groups1, <<operand>>)
                    ELSE append_to_last(groups1, operand),
                    i + 2, reachable1)

\* A Command token: an instruction, with the operand it takes.
MapCommand ==
    /\ Mapping
    /\ token_at(map_i).type = "CMD"
    /\ LET r == process_command(token_at(map_i), map_i, map, is_reachable)
       IN  /\ notes' = notes \o r.notes
           /\ map' = r.map
           /\ map_i' = r.i
           /\ is_reachable' = r.is_reachable
    /\ UNCHANGED <<source, pc, raised, tokens, ctx, macro_idx, scan_i, consumed,
                   new_tokens, labels, binary>>
    /\ UNCHANGED main_vars

\* Any other token: the else of the loop, "Should not happen".
MapUnexpected ==
    /\ Mapping
    /\ token_at(map_i).type \notin {"COMMENT", "INFO", "ERR", "LABEL", "BIN", "CMD"}
    /\ notes' = Append(notes,
                       Note(prev_addr, token_at(map_i).line_nr, "ERROR",
                            <<"Unexpected token type ",
                              get_token_type_name(token_at(map_i).type),
                              " with value '">>
                                \o token_at(map_i).value \o <<"'.">>
                                \o note_suffix(token_at(map_i))))
    /\ map_i' = map_i + 1
    /\ UNCHANGED <<source, pc, raised, tokens, ctx, macro_idx, scan_i, consumed,
                   new_tokens, map, labels, is_reachable, binary>>
    /\ UNCHANGED main_vars

\* _process_tokens has returned; _convert_to_binary encodes every address.
ConvertToBinary ==
    /\ pc = "map" /\ ~raised
    /\ map_i >= Len(tokens)
    /\ LET r == convert_to_binary_from(0, map, labels)
       IN  /\ binary' = r.binary
           /\ notes' = notes \o r.notes
    /\ pc' = "done"
    /\ UNCHANGED <<source, raised, tokens, ctx, macro_idx, scan_i, consumed,
                   new_tokens, map, labels, map_i, is_reachable>>
    /\ UNCHANGED main_vars

\* The state at the first call of compile_and_output, the command line
\* parsed into one of the given options and the file holding one of the
\* given texts.
StartMain(sources, options) ==
    /\ source \in sources
    /\ pc = "tokenize"
    /\ raised = FALSE
    /\ tokens = <<>>
    /\ ctx = EmptyContext
    /\ macro_idx = 1
    /\ scan_i = 0
    /\ consumed = <<>>
    /\ new_tokens = <<>>
    /\ map = <<>>
    /\ labels = <<>>
    /\ notes = <<>>
    /\ map_i = 0
    /\ is_reachable = TRUE
    /\ binary = <<>>
    /\ args \in options
    /\ output = <<>>
    /\ printed = <<>>
    /\ compiled = <<>>

\* compile_and_output: output = get_output(memory_map, ...)
GetOutput ==
    /\ pc = "done" /\ ~raised
    /\ args.main
    /\ output' = get_output(binary, map, notes, args)
    /\ pc' = "output"
    /\ UNCHANGED <<source, raised, tokens, ctx, macro_idx, scan_i, consumed,
                   new_tokens, map, labels, notes, map_i, is_reachable, binary,
                   args, printed, compiled>>

\* compile_and_output: print_notes(memory_map, note_level, ...)
PrintNotes ==
    /\ pc = "output" /\ ~raised
    /\ printed' = print_notes(notes, args.note_level)
    /\ pc' = "printed"
    /\ UNCHANGED <<source, raised, tokens, ctx, macro_idx, scan_i, consumed,
                   new_tokens, map, labels, notes, map_i, is_reachable, binary,
                   args, output, compiled>>

\* The watch loop of --auto-recompile: the file has changed, it holds one of
\* the texts, and compile_and_output runs again.
Recompile ==
    /\ pc = "printed" /\ ~raised
    /\ args.auto_recompile
    /\ Len(compiled) + 1 < MaxCompilations
    /\ compiled' = Append(compiled, [source |-> source, binary |-> binary,
                                     labels |-> labels, notes |-> notes])
    /\ source' \in Files
    /\ pc' = "tokenize"
    /\ UNCHANGED <<raised, tokens, ctx, macro_idx, scan_i, consumed, new_tokens,
                   map, labels, notes, map_i, is_reachable, binary, args, output,
                   printed>>

\* A run of the program from the command line with --note-level warning and
\* --auto-recompile, the file holding the first of the texts
MainRuns == StartMain({DefiningFile}, {Args("WARNING", FALSE, FALSE, TRUE)})

Next ==
    \/ Tokenize
    \/ ExpandMacro
    \/ FinishPreprocess
    \/ ConvertNumbers
    \/ MapCommentOrInfo
    \/ MapError
    \/ MapLabel
    \/ MapBinary
    \/ MapCommand
    \/ MapUnexpected
    \/ ConvertToBinary
    \/ GetOutput
    \/ PrintNotes
    \/ Recompile


----------------------------------------------------------------------------
(* Source texts *)

\* A line of chunks separated by one space
Line(chunks) == join(<<" ">>, chunks)

\* The sequences of at most n elements of a set
SeqsUpTo(S, n) == UNION {[1..k -> S] : k \in 0..n}

\* Fixed programs that take the pipeline through every stage and every kind
\* of token: comments, labels, raw data, instructions with and without
\* operand, label references in and out of place, and macro calls.
Programs ==
    { << <<"x",":"," ","l","o","a","d"," ","%","1","0","1"," ",";"," ","s","e","t">>, <<"j","u","m","p"," ",":","x">>, <<"h","a","l","t"," ","/","/","e","n","d">> >>,
      << <<"%","1","1"," ",":","y"," ","f","r","o","b"," ","!">>, <<"l","b"," ","0","x","a","5">> >>,
      << <<"m","a","l","l","o","c"," ","a",":"," ","4">>, <<"a","t"," ","a","d","d"," ",":","a">>, <<"h","a","l","t">> >>,
      << <<"d","e","f","i","n","e"," ","k",":"," ","5"," ","l","o","a","d"," ","u","s","e"," ",":","k">> >>,
      << <<"y",":"," ","d","o"," ","h","a","l","t"," ","u","n","t","i","l"," ","t"," ",":","y">> >>,
      << <<"l","d"," ","4","6","6","0"," ","w","h","i","l","e"," ","a","0"," ",":","q"," ","1","2">> >>,
      << <<"z",":"," ","%","1"," ","z",":">>, <<"%","1"," ","z",":"," ","j","u","m","p"," ",":","z">> >> }

\* The statements general programs are made of, one per line
Statements ==
    { <<"h","a","l","t">>, <<"x",":">>, <<"j","u","m","p"," ",":","x">>, <<"%","1","0","1">>, <<"l","b"," ","0","x","1","f">>, <<"m","a","l","l","o","c"," ","a",":"," ","0">>, <<"a","t"," ","a","d","d"," ",":","a">>,
      <<"l","o","a","d"," ","!">> }

MaxStatements == 3

StatementPrograms == SeqsUpTo(Statements, MaxStatements)

\* Lines with blanks before, between and after two chunks
Blanks == {<<>>, <<" ">>, <<"\t">>, <<" ", " ">>}

BlankPrograms ==
    { << lead \o <<"h","a","l","t">> \o sep \o <<"%","1">> \o trail >> :
        lead \in Blanks, sep \in Blanks \ {<<>>}, trail \in Blanks }
    \cup { << lead \o <<"h","a","l","t">> \o trail >> : lead \in Blanks, trail \in Blanks }

\* A decimal literal of one digit more than int() converts, alone and as the
\* operand of a macro that reads its value
LongLiteral == [k \in 1..(INT_MAX_STR_DIGITS + 1) |-> "1"]

LongLiteralPrograms == { << LongLiteral >>, << <<"l","b"," ">> \o LongLiteral >> }

Sources == Programs \cup StatementPrograms \cup BlankPrograms \cup LongLiteralPrograms

Init == Start(Sources) \/ MainRuns

Spec == Init /\ [][Next]_vars

----------------------------------------------------------------------------
(* Properties of the words, the lexer and the stages after it *)

\* The number a text of binary digits denotes
RECURSIVE BitsValue(_)
BitsValue(bits) ==
    IF bits = <<>> THEN 0
    ELSE 2 * BitsValue(SubSeq(bits, 1, Len(bits) - 1))
             + (IF bits[Len(bits)] = "1" THEN 1 ELSE 0)

IsBits(word) == \A k \in 1..Len(word) : word[k] \in {"0", "1"}

\* The positions of a sequence that satisfy a test
Positions(s, Test(_)) == {k \in 1..Len(s) : Test(s[k])}

\* C2: in every run, every character of every binary word is '0' or '1',
\* also when the operand of the word was synthesized by a macro.
C2_BinaryWordsAreBits ==
    \A a \in 1..Len(binary) : IsBits(binary[a])

\* C3: tokenize never aborts: no exception leaves compile_source while it is
\* in tokenize, whatever blanks are before, between and after the chunks.
C3_TokenizeNeverAborts ==
    ~(pc = "tokenize" /\ raised)

\* The place of a stage in compile_source
StageRank(stage) ==
    CASE stage = "tokenize"   -> 0
      [] stage = "preprocess" -> 1
      [] stage = "convert"    -> 2
      [] stage = "map"        -> 3
      [] stage = "done"       -> 4
      [] stage = "output"     -> 5
      [] stage = "printed"    -> 6

\* A step brings the run nearer its end: it raises, or it enters a later
\* stage, or the loops of preprocess_tokens move on (a later entry, a later
\* position, or the same position on a shorter token list), or the loop of
\* _process_tokens moves to a later token, or the watch loop of the command
\* line program starts the next compilation.
StepAdvances ==
    \/ ~raised /\ raised'
    \/ StageRank(pc') > StageRank(pc)
    \/ /\ pc = "preprocess" /\ pc' = "preprocess"
       /\ \/ macro_idx' > macro_idx
          \/ macro_idx' = macro_idx /\ scan_i' > scan_i
          \/ macro_idx' = macro_idx /\ scan_i' = scan_i /\ Len(tokens') < Len(tokens)
    \/ pc = "map" /\ pc' = "map" /\ map_i' > map_i
    \/ pc = "printed" /\ pc' = "tokenize" /\ Len(compiled') > Len(compiled)

\* C4: the stages after the lexer never raise and run to completion: an
\* exception leaves compile_source only out of tokenize, and every step of a
\* run advances it towards the returned Memory Map, so that no loop of the
\* later stages can go round for ever.  A decimal literal of more digits than
\* int() converts is a token the lexer produces and the later stages raise on.
C4_LaterStagesRunToCompletion ==
    /\ [](raised => pc = "tokenize")
    /\ [][StepAdvances]_vars

----------------------------------------------------------------------------
(* Labels and label references *)

\* The addresses (1-based here) whose token group is a single LabelRef
LabelRefAddresses ==
    {a \in 1..Len(map) : Len(map[a]) = 1 /\ map[a][1].type = "LABREF"}

\* The notes of the encoder that report the reference at address a undefined
UndefinedNotes(a) ==
    {k \in 1..Len(notes) :
        /\ notes[k][1] = a - 1
        /\ notes[k][3] = "ERROR"
        /\ notes[k][4] = <<"Error: Undefined label reference '">>
                             \o map[a][1].value \o <<"'.">>}

\* C5: when the run is done, the word of an address that holds a single
\* LabelRef to a bound label L with labels[L] < 1024 is ten binary digits
\* that denote labels[L], whether L is defined before or after the
\* reference; the word of a LabelRef to an unbound name is ten zeros, and
\* exactly one Error note reports it.
C5_LabelRefEncoding ==
    pc = "done" =>
        \A a \in LabelRefAddresses :
            LET L == map[a][1].value
            IN  IF L \in DOMAIN labels
                THEN labels[L] < 1024 =>
                         /\ Len(binary[a]) = 10
                         /\ IsBits(binary[a])
                         /\ BitsValue(binary[a]) = labels[L]
                         /\ UndefinedNotes(a) = {}
                ELSE /\ binary[a] = [k \in 1..10 |-> "0"]
                     /\ Cardinality(UndefinedNotes(a)) = 1

\* A finished run with a reference to a label defined after it and a
\* reference to a label defined before it, at an address other than 0.
C5_Witness ==
    /\ pc = "done"
    /\ \E a, b \in LabelRefAddresses :
          /\ map[a][1].value \in DOMAIN labels
          /\ map[b][1].value \in DOMAIN labels
          /\ labels[map[a][1].value] > a - 1
          /\ labels[map[b][1].value] < b - 1
          /\ labels[map[b][1].value] > 0

\* The token the mapper is at is a Label whose name is bound
AtBoundLabel ==
    /\ pc = "map" /\ ~raised /\ map_i < Len(tokens)
    /\ tokens[map_i + 1].type = "LABEL"
    /\ tokens[map_i + 1].value \in DOMAIN labels

\* The token the mapper is at is a Label whose name is not bound
AtNewLabel ==
    /\ pc = "map" /\ ~raised /\ map_i < Len(tokens)
    /\ tokens[map_i + 1].type = "LABEL"
    /\ tokens[map_i + 1].value \notin DOMAIN labels

DuplicateNotes(all_notes, name) ==
    {k \in 1..Len(all_notes) :
        /\ all_notes[k][3] = "ERROR"
        /\ all_notes[k][4] = <<"Duplicate label '">> \o name \o <<"'">>}

\* No Label token comes right after a Command token, so that every Label
\* token is a definition at the top level and none is taken as an operand.
AllLabelsTopLevel ==
    \A k \in 2..Len(tokens) : tokens[k].type = "LABEL" => tokens[k - 1].type # "CMD"

LabelTokens(name) ==
    {k \in 1..Len(tokens) : tokens[k].type = "LABEL" /\ tokens[k].value = name}

\* C6: a step of the mapper at a Label token whose name is bound adds
\* exactly one Error note, the duplicate-label note of that name, and leaves
\* the label table as it is; a step at a Label whose name is not bound binds
\* it to the next address; so when the run is done a name with n top-level
\* definitions is bound and has n-1 duplicate-label notes.
C6_DuplicateLabel ==
    /\ [][ /\ AtBoundLabel =>
                /\ labels' = labels
                /\ Len(notes') = Len(notes) + 1
                /\ SubSeq(notes', 1, Len(notes)) = notes
                /\ Len(notes') \in DuplicateNotes(notes', tokens[map_i + 1].value)
           /\ AtNewLabel =>
                /\ labels' = [n \in DOMAIN labels \cup {tokens[map_i + 1].value} |->
                                IF n \in DOMAIN labels THEN labels[n] ELSE Len(map)]
                /\ notes' = notes ]_vars
    /\ [] ( (pc = "done" /\ AllLabelsTopLevel) =>
               \A k \in 1..Len(tokens) :
                   tokens[k].type = "LABEL" =>
                       /\ tokens[k].value \in DOMAIN labels
                       /\ Cardinality(DuplicateNotes(notes, tokens[k].value))
                              = Cardinality(LabelTokens(tokens[k].value)) - 1 )

\* A finished run with three definitions of a name, the last two of them at
\* another address than the first, which holds the binding.
C6_Witness ==
    /\ pc = "done"
    /\ AllLabelsTopLevel
    /\ \E k \in 1..Len(tokens) :
          /\ tokens[k].type = "LABEL"
          /\ Cardinality(LabelTokens(tokens[k].value)) = 3
          /\ Cardinality(DuplicateNotes(notes, tokens[k].value)) = 2
          /\ \E d \in DuplicateNotes(notes, tokens[k].value) :
                 notes[d][1] > labels[tokens[k].value]


\* The words of the earlier map are the first words of the later one
ExtendsMap(later, earlier) ==
    /\ Len(later) >= Len(earlier)
    /\ SubSeq(later, 1, Len(earlier)) = earlier

\* C28: every address in the label table is between 0 and the number of
\* memory words inclusive. A step at a Label whose name is not bound binds
\* it to the number of words made so far and makes no word; later steps
\* keep the binding and only append words, so that the address is the
\* address of the first word made after the definition, and is the length
\* of the binary, the index of no word, when no word is made after it.
C28_LabelAddresses ==
    [][/\ \A name \in DOMAIN labels' : labels'[name] \in 0..Len(map')
       /\ AtNewLabel =>
              /\ labels' = dict_set(labels, token_at(map_i).value, Len(map))
              /\ map' = map
       /\ (pc = "map" /\ ~raised) =>
              /\ ExtendsMap(map', map)
              /\ \A name \in DOMAIN labels :
                     name \in DOMAIN labels' /\ labels'[name] = labels[name]
       /\ (pc = "map" /\ pc' = "done") =>
              /\ Len(binary') = Len(map')
              /\ \A name \in DOMAIN labels' : labels'[name] \in 0..Len(binary')
      ]_vars

\* A finished run where x is defined before the only word and y after it:
\* x is the address of the word and y the length of the binary.
C28_Witness ==
    /\ pc = "done" /\ ~raised
    /\ source = << <<"x",":">>, <<"h","a","l","t">>, <<"y",":">> >>
    /\ Len(binary) = 1
    /\ labels[<<"x">>] = 0
    /\ labels[<<"y">>] = 1
----------------------------------------------------------------------------
(* Memory_Map given a token sequence *)

\* The state at the call of Memory_Map(tokens) on one of the given token
\* sequences, with no source text behind them.
StartMap(token_seqs) ==
    /\ source = <<>>
    /\ pc = "map"
    /\ raised = FALSE
    /\ tokens \in token_seqs
    /\ ctx = EmptyContext
    /\ macro_idx = Len(MACROS) + 1
    /\ scan_i = 0
    /\ consumed = <<>>
    /\ new_tokens = <<>>
    /\ map = <<>>
    /\ labels = <<>>
    /\ notes = <<>>
    /\ map_i = 0
    /\ is_reachable = TRUE
    /\ binary = <<>>
    /\ args = NoArgs
    /\ output = <<>>
    /\ printed = <<>>
    /\ compiled = <<>>

\* Tokens of every kind the encoder tells apart: raw data that fits the word
\* and raw data that does not, a label and a reference to it, instructions
\* without operand, with an operand in the word and with an operand in the
\* next word, an instruction that is not in the table, an error, and a
\* number that was never converted.
MapTokens ==
    { Token("BIN", <<"1","0","1">>, 1, <<"%","1","0","1">>, None),
      Token("BIN", <<"1","1","1","1","1","1","1","1","1","1","1">>, 1, <<"%","1","1","1","1","1","1","1","1","1","1","1">>, None),
      Token("LABEL", <<"x">>, 1, <<"x",":">>, None),
      Token("LABREF", <<"x">>, 1, <<":","x">>, None),
      Token("CMD", <<"h","a","l","t">>, 1, <<"h","a","l","t">>, None),
      Token("CMD", <<"l","o","a","d">>, 1, <<"l","o","a","d">>, None),
      Token("CMD", <<"j","u","m","p">>, 1, <<"j","u","m","p">>, None),
      Token("CMD", <<"f","r","o","b">>, 1, <<"f","r","o","b">>, None),
      Token("ERR", <<"Syntax error: Cannot understand \"!\"">>, 1, <<"!">>, None),
      Token("DECIMAL", <<"1","2">>, 1, <<"1","2">>, None) }

MaxTokens == 3

InitMap == Start(Programs) \/ StartMap(SeqsUpTo(MapTokens, MaxTokens)) \/ MainRuns

SpecMap == InitMap /\ [][Next]_vars

\* C1: when Memory_Map is constructed, binary has one word for each address
\* of map, and every word is exactly 10 characters long.
C1_WordPerAddress ==
    pc = "done" =>
        /\ Len(binary) = Len(map)
        /\ \A a \in 1..Len(binary) : Len(binary[a]) = 10

\* A Memory_Map constructed from tokens with a word cut from a value too
\* long for it, a word of zeros for an error, and a word padded with zeros.
C1_Witness ==
    /\ pc = "done"
    /\ source = <<>>
    /\ \E a \in 1..Len(map) :
          /\ map[a][Len(map[a])].type = "BIN"
          /\ Len(map[a][Len(map[a])].value) > 10
          /\ \E k \in 1..Len(notes) : notes[k][1] = a - 1 /\ notes[k][3] = "ERROR"
    /\ \E a \in 1..Len(map) :
          /\ map[a][1].type = "ERR"
          /\ binary[a] = [k \in 1..10 |-> "0"]
    /\ \E a \in 1..Len(map) :
          /\ map[a] = <<Token("BIN", <<"1","0","1">>, 1, <<"%","1","0","1">>, None)>>
          /\ binary[a] = <<"0","0","0","0","0","0","0","1","0","1">>

----------------------------------------------------------------------------
(* Programs of raw binary literals *)

\* The bit strings of the literals: one bit, some bits, leading zeros, and
\* the full width of a word.
LiteralBits == {<<"0">>, <<"1">>, <<"1","0","1">>, <<"0","0","1","1">>, <<"1","1","1","1","1","1","1","1","1","1">>}

MaxLiterals == 3

\* The literal of a bit string, as it is written in the source
Literal(bits) == <<"%">> \o bits

\* The program of the literals, one on each line, and all on one line
RawLines(lits) == [k \in 1..Len(lits) |-> Literal(lits[k])]

RawLine(lits) ==
    IF lits = <<>> THEN <<>>
    ELSE << Line([k \in 1..Len(lits) |-> Literal(lits[k])]) >>

RawPrograms ==
    UNION {{RawLines(lits), RawLine(lits)} : lits \in SeqsUpTo(LiteralBits, MaxLiterals)}

InitRaw == Start(Programs \cup RawPrograms) \/ MainRuns

SpecRaw == InitRaw /\ [][Next]_vars

\* A bit string of at most 10 bits with zeros before it up to 10 characters
PaddedTo10(bits) ==
    [k \in 1..10 |-> IF k <= 10 - Len(bits) THEN "0" ELSE bits[k - (10 - Len(bits))]]

\* C7: the compilation of a program that is N raw binary literals of at
\* most 10 bits has exactly N addresses, and the word at address i is the
\* i-th literal's bit string with zeros before it up to 10 bits.
C7_RawLiteralsRoundTrip ==
    pc = "done" =>
        \A lits \in SeqsUpTo(LiteralBits, MaxLiterals) :
            source \in {RawLines(lits), RawLine(lits)} =>
                /\ Len(map) = Len(lits)
                /\ Len(binary) = Len(lits)
                /\ \A i \in 1..Len(lits) : binary[i] = PaddedTo10(lits[i])

\* The compilation of three literals of different lengths
C7_Witness ==
    /\ pc = "done"
    /\ source = RawLine(<<<<"1","0","1">>, <<"1","1","1","1","1","1","1","1","1","1">>, <<"0","0","1","1">>>>)
    /\ binary = <<<<"0","0","0","0","0","0","0","1","0","1">>, <<"1","1","1","1","1","1","1","1","1","1">>, <<"0","0","0","0","0","0","0","0","1","1">>>>

----------------------------------------------------------------------------
(* Programs of malloc and at *)

\* Size literals in the three radixes, with the number each denotes
MallocSizes ==
    { [text |-> <<"4">>,    type |-> "DECIMAL",     value |-> 4],
      [text |-> <<"1","7">>,   type |-> "DECIMAL",     value |-> 17],
      [text |-> <<"%","1","1">>,  type |-> "BIN",         value |-> 3],
      [text |-> <<"0","x","1","f">>, type |-> "HEXADECIMAL", value |-> 31] }

\* The name the k-th malloc call of a program gives
MallocNames == <<<<"a">>, <<"b">>, <<"c">>, <<"d">>, <<"e">>>>

MaxMallocs == 3

\* The program "malloc <name k>: <size k>" for each size, one call on each
\* line, and then "at :<name k>" for each name, one on each line.
MallocProgram(sizes) ==
    [k \in 1..(2 * Len(sizes)) |->
        IF k <= Len(sizes)
        THEN <<"m","a","l","l","o","c"," ">> \o MallocNames[k] \o <<":"," ">> \o sizes[k].text
        ELSE <<"a","t"," ",":">> \o MallocNames[k - Len(sizes)]]

MallocPrograms ==
    {MallocProgram(sizes) : sizes \in SeqsUpTo(MallocSizes, MaxMallocs)}

\* Sizes around the 240 units the allocator hands out without complaint
BoundarySizes == {<<"2","3","8">>, <<"2","3","9">>, <<"2","4","0">>, <<"2","4","1">>, <<"2","5","5">>, <<"2","5","6">>, <<"2","5","7">>}

BoundaryPrograms ==
    { << <<"m","a","l","l","o","c"," ","a",":"," ">> \o size >> : size \in BoundarySizes }
    \cup { << <<"m","a","l","l","o","c"," ","a",":"," ","2","0","0">>, <<"m","a","l","l","o","c"," ","b",":"," ">> \o size >> : size \in {<<"3","9">>, <<"4","0">>, <<"4","1">>} }
    \cup { << <<"m","a","l","l","o","c"," ","a",":"," ","2","5","0">>, <<"m","a","l","l","o","c"," ","b",":"," ","1","0">> >>, << <<"m","a","l","l","o","c"," ","a",":"," ","2","5","7">>, <<"m","a","l","l","o","c"," ","b",":"," ","1">> >> }

InitMalloc == Start(Programs \cup MallocPrograms \cup BoundaryPrograms) \/ MainRuns

SpecMalloc == InitMalloc /\ [][Next]_vars

RECURSIVE SumOver(_, _)
SumOver(S, f) ==
    IF S = {} THEN 0
    ELSE LET x == CHOOSE y \in S : TRUE IN f[x] + SumOver(S \ {x}, f)

\* The sum of the sizes of the calls before the k-th in the source
SizesBeforeInSource(sizes, k) ==
    SumOver(1..(k - 1), [j \in 1..Len(sizes) |-> sizes[j].value])

\* The run is done with the program of the sizes, and the k-th name is
\* allocated at the address, which the k-th "at" emitted as a BinaryLiteral.
AllocatedAt(sizes, k, address) ==
    /\ MallocNames[k] \in DOMAIN ctx.allocations
    /\ ctx.allocations[MallocNames[k]] = [address |-> address, size |-> sizes[k].value]
    /\ Len(tokens) = 2 * Len(sizes)
    /\ tokens[Len(sizes) + k].type = "BIN"
    /\ IsBits(tokens[Len(sizes) + k].value)
    /\ BitsValue(tokens[Len(sizes) + k].value) = address

\* C8 as stated: the k-th malloc call in source order is given the sum of
\* the sizes of the calls before it in the source, whatever the radix of
\* each size literal, and "at :name" emits that address.
C8_SourceOrder ==
    pc = "done" =>
        \A sizes \in SeqsUpTo(MallocSizes, MaxMallocs) :
            source = MallocProgram(sizes) =>
                \A k \in 1..Len(sizes) :
                    AllocatedAt(sizes, k, SizesBeforeInSource(sizes, k))

\* The place of a size literal's type among the malloc entries of MACROS
RadixRank(type) ==
    CASE type = "BIN" -> 1 [] type = "DECIMAL" -> 2 [] type = "HEXADECIMAL" -> 3

\* The calls expanded before the k-th: the calls of an earlier entry, and
\* the calls of the same entry that are before it in the source.
ExpandedBefore(sizes, k) ==
    {j \in 1..Len(sizes) :
        \/ RadixRank(sizes[j].type) < RadixRank(sizes[k].type)
        \/ RadixRank(sizes[j].type) = RadixRank(sizes[k].type) /\ j < k}

SizesBeforeInExpansion(sizes, k) ==
    SumOver(ExpandedBefore(sizes, k), [j \in 1..Len(sizes) |-> sizes[j].value])

\* C8 amended: malloc is a bump allocator in expansion order: the calls
\* with a binary size are expanded first, then those with a decimal size,
\* then those with a hexadecimal size, each group in source order; a call is
\* given the sum of the sizes of the calls expanded before it, and
\* "at :name" emits that address as a BinaryLiteral.
C8_ExpansionOrder ==
    pc = "done" =>
        \A sizes \in SeqsUpTo(MallocSizes, MaxMallocs) :
            source = MallocProgram(sizes) =>
                \A k \in 1..Len(sizes) :
                    AllocatedAt(sizes, k, SizesBeforeInExpansion(sizes, k))

\* A finished run of three calls, decimal, binary and hexadecimal in the
\* source, where the binary call holds address 0 and the decimal call, the
\* first in the source, the address after it.
C8_Witness ==
    /\ pc = "done"
    /\ source = << <<"m","a","l","l","o","c"," ","a",":"," ","1","7">>, <<"m","a","l","l","o","c"," ","b",":"," ","%","1","1">>, <<"m","a","l","l","o","c"," ","c",":"," ","0","x","1","f">>,
                   <<"a","t"," ",":","a">>, <<"a","t"," ",":","b">>, <<"a","t"," ",":","c">> >>
    /\ ctx.allocations[<<"b">>].address = 0
    /\ ctx.allocations[<<"a">>].address = 3
    /\ ctx.allocations[<<"c">>].address = 20
    /\ tokens[4].value = <<"1","1">>

\* The last macro call was a call of malloc
MallocCalled ==
    /\ pc = "preprocess" /\ ~raised
    /\ consumed # <<>>
    /\ consumed[1].type = "CMD" /\ consumed[1].value = <<"m","a","l","l","o","c">>

\* C9: a malloc call returns one Error token when address + size > 240 and
\* one Info token otherwise, so a call that leaves exactly 16 of the 256
\* units free returns an Info token.
C9_ErrorOnlyBeyond240 ==
    MallocCalled =>
        LET allocation == ctx.allocations[consumed[2].value]
        IN  /\ Len(new_tokens) = 1
            /\ new_tokens[1].type =
                   (IF allocation.address + allocation.size > 240 THEN "ERR" ELSE "INFO")


\* The units [address, address + size) of a recorded allocation
AllocatedRange(allocation) ==
    allocation.address .. (allocation.address + allocation.size - 1)

\* The program is one of malloc calls with sizes >= 1 on distinct names
DistinctMallocs ==
    source \in MallocPrograms \cup BoundaryPrograms

\* C27: after any sequence of malloc calls with sizes >= 1 on distinct
\* names, the recorded allocations occupy pairwise disjoint ranges
\* [address, address + size) that all lie inside 0..255, the calls that
\* returned the not-enough-memory Error included.
C27_AllocationsDisjointInMemory ==
    (DistinctMallocs /\ ctx.has_mallocs) =>
        /\ \A name \in DOMAIN ctx.allocations :
               AllocatedRange(ctx.allocations[name]) \subseteq 0..(MEMORY_SIZE - 1)
        /\ \A name, other \in DOMAIN ctx.allocations :
               name # other =>
                   AllocatedRange(ctx.allocations[name])
                       \cap AllocatedRange(ctx.allocations[other]) = {}

\* The same for the calls that returned an Info token only: the part of
\* the claim that the allocator keeps.
C27_GrantedAllocationsDisjoint ==
    (DistinctMallocs /\ ctx.has_mallocs) =>
        LET granted == {name \in DOMAIN ctx.allocations :
                            ctx.allocations[name].address + ctx.allocations[name].size
                                < MEMORY_SIZE - MEMORY_RESERVE}
        IN  /\ \A name \in granted :
                   AllocatedRange(ctx.allocations[name]) \subseteq 0..(MEMORY_SIZE - 1)
            /\ \A name, other \in granted :
                   name # other =>
                       AllocatedRange(ctx.allocations[name])
                           \cap AllocatedRange(ctx.allocations[other]) = {}
----------------------------------------------------------------------------
(* Programs of load_byte *)

\* The values loaded: every byte, and some values past the last of them
MaxLoadValue == 260

LoadNames == {<<"l","o","a","d","_","b","y","t","e">>, <<"l","b">>}

\* The literal of a value in the radix of a token type
ValueLiteral(type, v) ==
    CASE type = "BIN" -> <<"%">> \o NatText(v, 2)
      [] type = "DECIMAL" -> NatText(v, 10)
      [] type = "HEXADECIMAL" -> <<"0", "x">> \o NatText(v, 16)

LoadProgram(name, type, v) == << name \o <<" ">> \o ValueLiteral(type, v) >>

LoadPrograms ==
    { LoadProgram(name, type, v) :
        name \in LoadNames, type \in {"BIN", "DECIMAL", "HEXADECIMAL"},
        v \in 0..MaxLoadValue }

InitLoad == Start(Programs \cup LoadPrograms) \/ MainRuns

SpecLoad == InitLoad /\ [][Next]_vars

\* The last macro call was a call of load_byte or lb
LoadCalled ==
    /\ pc = "preprocess" /\ ~raised
    /\ consumed # <<>>
    /\ consumed[1].type = "CMD" /\ consumed[1].value \in LoadNames

\* The values whose program the source is
LoadedValues ==
    {v \in 0..MaxLoadValue :
        \E name \in LoadNames, type \in {"BIN", "DECIMAL", "HEXADECIMAL"} :
            source = LoadProgram(name, type, v)}

IsLoadInstruction(token) ==
    token.type = "CMD" /\ token.value \in {<<"l","o","a","d">>, <<"l">>}

\* A BinaryLiteral of four bits that denote n
IsNibble(token, n) ==
    /\ token.type = "BIN"
    /\ Len(token.value) = 4
    /\ IsBits(token.value)
    /\ BitsValue(token.value) = n

\* The tokens are a load instruction, the nibble first, a load instruction
\* and the nibble second.
LoadsNibbles(toks, first, second) ==
    /\ Len(toks) = 4
    /\ IsLoadInstruction(toks[1])
    /\ IsNibble(toks[2], first)
    /\ IsLoadInstruction(toks[3])
    /\ IsNibble(toks[4], second)

IsOneError(toks) == Len(toks) = 1 /\ toks[1].type = "ERR"

\* C10 as stated: for v in 0..255 a call of load_byte or lb returns a load
\* instruction, the high nibble of v, a load instruction and the low nibble
\* of v, in that order; for a value outside 0..255 it returns one Error token.
C10_HighNibbleFirst ==
    LoadCalled =>
        \A v \in LoadedValues :
            IF v <= 255
            THEN LoadsNibbles(new_tokens, v \div 16, v % 16)
            ELSE IsOneError(new_tokens)

\* C10 amended: for v in 0..255 a call of load_byte or lb returns a load
\* instruction, the low nibble of v (bits 3..0), a load instruction and the
\* high nibble of v (bits 7..4), in that order; for a value outside 0..255
\* it returns one Error token.
C10_LowNibbleFirst ==
    LoadCalled =>
        \A v \in LoadedValues :
            IF v <= 255
            THEN LoadsNibbles(new_tokens, v % 16, v \div 16)
            ELSE IsOneError(new_tokens)

\* The call "lb 0xa5" has returned the nibble 0101 and then the nibble 1010
C10_Witness ==
    /\ LoadCalled
    /\ source = << <<"l","b"," ","0","x","a","5">> >>
    /\ LoadedValues = {165}
    /\ new_tokens[2].value = <<"0","1","0","1">>
    /\ new_tokens[4].value = <<"1","0","1","0">>


----------------------------------------------------------------------------
(* Programs of load_double *)

\* The values loaded: the small ones, one in every DoubleStride up to the
\* last double byte, and the values around the end of the range
MaxDoubleValue == 40

DoubleStride == 1021

DoubleValues ==
    (0..MaxDoubleValue)
        \cup {v \in 0..65537 : v % DoubleStride = 0}
        \cup {4660, 65535, 65536, 65537}

DoubleNames == {<<"l","o","a","d","_","d","o","u","b","l","e">>, <<"l","d">>}

DoublePrograms ==
    { LoadProgram(name, type, v) :
        name \in DoubleNames, type \in {"BIN", "DECIMAL", "HEXADECIMAL"},
        v \in DoubleValues }

InitDouble == Start(Programs \cup DoublePrograms) \/ MainRuns

SpecDouble == InitDouble /\ [][Next]_vars

\* The last macro call was a call of load_double or ld
DoubleCalled ==
    /\ pc = "preprocess" /\ ~raised
    /\ consumed # <<>>
    /\ consumed[1].type = "CMD" /\ consumed[1].value \in DoubleNames

\* The values whose program the source is
DoubleLoadedValues ==
    {v \in DoubleValues :
        \E name \in DoubleNames, type \in {"BIN", "DECIMAL", "HEXADECIMAL"} :
            source = LoadProgram(name, type, v)}

\* Nibble k of v: bits 4k+3..4k
NibbleOf(v, k) == (v \div (16 ^ k)) % 16

\* The tokens are four pairs of a load instruction and a nibble, the nibbles
\* being those of v numbered order[1], order[2], order[3] and order[4].
LoadsFourNibbles(toks, v, order) ==
    /\ Len(toks) = 8
    /\ \A p \in 1..4 :
          /\ IsLoadInstruction(toks[2 * p - 1])
          /\ IsNibble(toks[2 * p], NibbleOf(v, order[p]))

\* C11 as stated: for v in 0..65535 a call of load_double or ld returns four
\* pairs of a load instruction and a nibble, the nibbles being bits 15..12,
\* 11..8, 7..4 and 3..0 of v in that order (most-significant nibble first).
C11_MostSignificantFirst ==
    DoubleCalled =>
        \A v \in DoubleLoadedValues :
            v <= 65535 => LoadsFourNibbles(new_tokens, v, <<3, 2, 1, 0>>)

\* C11 amended: for v in 0..65535 a call of load_double or ld returns four
\* pairs of a load instruction and a nibble, the nibbles being bits 3..0,
\* 7..4, 11..8 and 15..12 of v in that order (least-significant nibble
\* first); for a value past 65535 it returns one Error token.
C11_LeastSignificantFirst ==
    DoubleCalled =>
        \A v \in DoubleLoadedValues :
            IF v <= 65535
            THEN LoadsFourNibbles(new_tokens, v, <<0, 1, 2, 3>>)
            ELSE IsOneError(new_tokens)

\* The call "ld 4660" (0x1234) has returned the nibbles 0100, 0011, 0010, 0001
C11_Witness ==
    /\ DoubleCalled
    /\ source = << <<"l","d"," ","4","6","6","0">> >>
    /\ DoubleLoadedValues = {4660}
    /\ new_tokens[2].value = <<"0","1","0","0">>
    /\ new_tokens[4].value = <<"0","0","1","1">>
    /\ new_tokens[6].value = <<"0","0","1","0">>
    /\ new_tokens[8].value = <<"0","0","0","1">>

----------------------------------------------------------------------------
(* Programs of until *)

UntilConditions == {<<"t">>, <<"t","r","i","g","g","e","r","e","d">>, <<"a","0">>, <<"c","_","1">>, <<"f","r","o","b">>, <<"h","a","l","t">>}

UntilLabels == {<<"l","o","o","p">>, <<"x">>, <<"a","_","1">>, <<"_","_","x","_","e","n","d">>}

\* A loop with its head and body, and the call alone
UntilPrograms ==
    { << head \o <<"u","n","t","i","l"," ">> \o condition \o <<" ",":">> \o label_name >> :
        head \in {<<>>, <<"x",":"," ","d","o"," ","h","a","l","t"," ">>},
        condition \in UntilConditions, label_name \in UntilLabels }

InitUntil == Start(Programs \cup UntilPrograms) \/ MainRuns

SpecUntil == InitUntil /\ [][Next]_vars

\* The last macro call was a call of until
UntilCalled ==
    /\ pc = "preprocess" /\ ~raised
    /\ consumed # <<>>
    /\ consumed[1].type = "CMD" /\ consumed[1].value = <<"u","n","t","i","l">>

\* A Command token that names the same instruction as the alias
IsCommandFor(token, alias) ==
    /\ token.type = "CMD"
    /\ find_instruction(token.value) # 0
    /\ find_instruction(token.value) = find_instruction(alias)

----------------------------------------------------------------------------
(* Programs of one chunk per line *)

\* Instructions without operand, with an operand in the word and with an
\* operand in the next word, a name that is no instruction, raw data, a
\* label and a reference to it, a comment and a chunk the lexer rejects.
Chunks ==
    { <<"h","a","l","t">>, <<"l","o","a","d">>, <<"j","u","m","p">>, <<"f","r","o","b">>, <<"%","1">>, <<":","x">>, <<"x",":">>, <<"/","/"," ","c">>, <<"!">> }

MaxChunks == 3

ChunkPrograms ==
    SeqsUpTo(Chunks, MaxChunks) \cup { << <<"x",":">>, <<"h","a","l","t">>, <<"y",":">> >> }

InitChunks == Start(Programs \cup ChunkPrograms) \/ MainRuns

SpecChunks == InitChunks /\ [][Next]_vars

\* The mapper is at a Command token that names no instruction
AtUnknownInstruction ==
    /\ Mapping
    /\ token_at(map_i).type = "CMD"
    /\ find_instruction(token_at(map_i).value) = 0

\* The notes a step appends
AddedNotes == SubSeq(notes', Len(notes) + 1, Len(notes'))

\* The group of an address holds the Error token of an unknown instruction
IsUnknownInstructionGroup(group) ==
    /\ Len(group) = 1
    /\ group[1].type = "ERR"
    /\ group[1].value[1] = "Unknown instruction '"

\* C13: a Command token at instruction position that names no instruction
\* (and no macro) makes the mapper append exactly one Error note, with the
\* token's source line, and exactly one address; the encoder gives that
\* address the word of ten zeros and appends no note for it.
C13_UnknownInstruction ==
    /\ [][AtUnknownInstruction =>
            /\ Len(notes') >= Len(notes)
            /\ Cardinality({k \in 1..Len(AddedNotes) : AddedNotes[k][3] = "ERROR"}) = 1
            /\ \A k \in 1..Len(AddedNotes) :
                  AddedNotes[k][3] = "ERROR" =>
                      /\ AddedNotes[k][2] = token_at(map_i).line_nr
                      /\ AddedNotes[k][1] = Len(map)
            /\ Len(map') = Len(map) + 1
            /\ IsUnknownInstructionGroup(map'[Len(map')])
            /\ map_i' = map_i + 1]_vars
    /\ [][pc = "map" /\ pc' = "done" =>
            \A a \in 1..Len(map) :
                IsUnknownInstructionGroup(map[a]) =>
                    /\ binary'[a] = <<"0","0","0","0","0","0","0","0","0","0">>
                    /\ \A k \in 1..Len(AddedNotes) : AddedNotes[k][1] # a - 1]_vars

\* A finished run of the program "halt", "frob" with the unknown instruction
\* of line 2 at address 1: an unreachable-code warning and one Error note of
\* line 2, and a word of zeros.
C13_Witness ==
    /\ pc = "done"
    /\ source = << <<"h","a","l","t">>, <<"f","r","o","b">> >>
    /\ Len(map) = 2
    /\ IsUnknownInstructionGroup(map[2])
    /\ binary[2] = <<"0","0","0","0","0","0","0","0","0","0">>
    /\ Cardinality({k \in 1..Len(notes) : notes[k][3] = "ERROR"}) = 1
    /\ \E k \in 1..Len(notes) :
          notes[k][3] = "ERROR" /\ notes[k][2] = 2 /\ notes[k][1] = 1
    /\ \E k \in 1..Len(notes) : notes[k][3] = "WARNING"

\* The mapper is at an instruction that takes an operand, with a token after
\* it
AtInstructionWithOperand ==
    /\ Mapping
    /\ token_at(map_i).type = "CMD"
    /\ find_instruction(token_at(map_i).value) # 0
    /\ INSTRUCTIONS[find_instruction(token_at(map_i).value)].has_operands
    /\ map_i + 1 < Len(tokens)

\* C15, as stated: when the mapper takes the token after an instruction as its
\* operand and puts it in the map, a LabelRef operand becomes the only token
\* of an address of its own and an operand of any other kind becomes the
\* second token of the instruction's group, whether the operand is accepted
\* or reported as invalid.
C15_OperandPlacement ==
    [][(AtInstructionWithOperand /\ Len(map') + Len(map'[Len(map')]) = Len(map) + 3) =>
          LET instruction_token == token_at(map_i)
              operand_token     == token_at(map_i + 1)
          IN  IF operand_token.type = "LABREF"
              THEN /\ Len(map') = Len(map) + 2
                   /\ map'[Len(map') - 1] = <<instruction_token>>
                   /\ map'[Len(map')] = <<operand_token>>
              ELSE /\ Len(map') = Len(map) + 1
                   /\ Len(map'[Len(map')]) = 2
                   /\ map'[Len(map')][1] = instruction_token]_vars

\* C15, amended: an accepted operand is placed by its kind (a LabelRef on an
\* address of its own, any other as the second token of the instruction's
\* group); an operand reported as invalid is placed by what the instruction
\* expects: on an address of its own, whatever its kind, when the instruction
\* takes a LabelRef, and as the second token of the instruction's group,
\* even a LabelRef, otherwise.  An Error token is placed as a zero
\* BinaryLiteral.
C15_OperandPlacementByInstruction ==
    [][(AtInstructionWithOperand /\ Len(map') + Len(map'[Len(map')]) = Len(map) + 3) =>
          LET instruction_token == token_at(map_i)
              operand_token     == token_at(map_i + 1)
              instruction       == INSTRUCTIONS[find_instruction(instruction_token.value)]
              placed            == IF operand_token.type = "ERR"
                                   THEN Token("BIN", <<"0">>, operand_token.line_nr,
                                              operand_token.src_text, None)
                                   ELSE operand_token
              accepted          == accepts(instruction, placed.type)
              own_address       == IF accepted THEN placed.type = "LABREF"
                                   ELSE accepts(instruction, "LABREF")
          IN  IF own_address
              THEN /\ map' = map \o << <<instruction_token>>, <<placed>> >>
              ELSE /\ map' = Append(map, <<instruction_token, placed>>)]_vars

\* An invalid LabelRef operand of load ended as the second token of load's
\* group, and the mapping is finished.
C15_Witness ==
    /\ pc = "done"
    /\ source = << <<"l","o","a","d">>, <<":","x">> >>
    /\ Len(map) = 1
    /\ Len(map[1]) = 2
    /\ map[1][1].type = "CMD"
    /\ map[1][2].type = "LABREF"

\* An invalid BinaryLiteral operand of jump ended on an address of its own.
C15_BinaryOnOwnAddress ==
    /\ pc = "done"
    /\ source = << <<"j","u","m","p">>, <<"%","1">> >>
    /\ Len(map) = 2
    /\ map[2] = << token_at(1) >>
    /\ map[2][1].type = "BIN"

\* The first fragments of the messages the mapper and the encoder keep for
\* conditions that should not happen
InternalMessages ==
    { "Internal error: Extra tokens found after ",
      "Internal error: Too many tokens to fit in one memory word.",
      "Internal error: Unknown instruction '",
      "Internal error: Unexpected operand type TokenType.",
      "Internal error: Unexpected token type TokenType.",
      "Unexpected token type " }

IsInternalNote(note) == note[4] # <<>> /\ note[4][1] \in InternalMessages

\* C18: whatever the source text, the notes of the memory map hold no note of
\* the 'Internal error' family and no 'Unexpected token type' note, also when
\* an instruction that expects an operand is followed by a Command, a Label,
\* a Comment or a LabelRef.
C18_NoInternalNotes ==
    \A k \in 1..Len(notes) : ~IsInternalNote(notes[k])

IsUnreachableWarning(note) ==
    /\ note[3] = "WARNING"
    /\ note[4] = <<"Unreachable code. This code cannot be reached during execution because it comes after a halt or unconditional jump, and no label points to it.">>

\* The mapper is at an instruction and the code is marked unreachable: the
\* step appends the 'Unreachable code' Warning
AtUnreachableInstruction ==
    Mapping /\ token_at(map_i).type = "CMD" /\ ~is_reachable

\* A Label token was mapped after the note at index k of the notes was
\* appended for address a: a label is bound to a later address, or a
\* 'Duplicate label' note follows the note.  (A label bound to a itself came
\* before the instruction at a.)
LabelSince(k, a) ==
    \/ \E name \in DOMAIN labels : labels[name] > a
    \/ \E j \in (k + 1)..Len(notes) :
          notes[j][3] = "ERROR" /\ notes[j][4][1] = "Duplicate label '"

\* C22: the mapper warns once per unreachable run: when it appends an
\* 'Unreachable code' Warning, every such Warning appended before is followed
\* by a Label token, however many instructions, further halt or jump
\* instructions included, lie between.
C22_OneWarningPerRun ==
    [][AtUnreachableInstruction =>
          \A k \in 1..Len(notes) :
              IsUnreachableWarning(notes[k]) => LabelSince(k, notes[k][1])]_vars

\* _process_tokens has returned and the encoder has not run yet
Mapped == pc = "map" /\ ~raised /\ map_i >= Len(tokens)

\* C23: every Comment or Info token of the mapper's input has produced
\* exactly one note, of Comment or Info severity respectively, and none is in
\* a per-address token group, wherever it stands, directly after an
\* instruction that expects an operand included.
C23_CommentsAreNotesOnly ==
    Mapped =>
        /\ \A type \in {"COMMENT", "INFO"} :
              Cardinality({k \in 1..Len(notes) : notes[k][3] = type})
                  = Cardinality({k \in 1..Len(tokens) : tokens[k].type = type})
        /\ \A a \in 1..Len(map) : \A k \in 1..Len(map[a]) :
              map[a][k].type \notin {"COMMENT", "INFO"}

IsKnownInstruction(token) ==
    token.type = "CMD" /\ find_instruction(token.value) # 0

\* C25: every token group the mapper creates holds one or two tokens, and a
\* group of two starts with the Command token of a known instruction; the
\* encoder never appends 'Too many tokens to fit in one memory word'.
C25_GroupsOfOneOrTwo ==
    /\ \A a \in 1..Len(map) :
          /\ Len(map[a]) \in {1, 2}
          /\ Len(map[a]) = 2 => IsKnownInstruction(map[a][1])
    /\ \A k \in 1..Len(notes) :
          notes[k][4] # <<"Internal error: Too many tokens to fit in one memory word.">>

\* 'load' followed by 'halt' and then '%1': the Command after load was taken
\* as its operand into a group of two, the literal after it has a group of
\* its own, and the encoder has run.
C25_Witness ==
    /\ pc = "done"
    /\ source = << <<"l","o","a","d">>, <<"h","a","l","t">>, <<"%","1">> >>
    /\ Len(map) = 2
    /\ Len(map[1]) = 2 /\ map[1][1].value = <<"l","o","a","d">> /\ map[1][2].value = <<"h","a","l","t">>
    /\ Len(map[2]) = 1 /\ map[2][1].type = "BIN"

----------------------------------------------------------------------------
(* Programs whose notes are listed and printed *)

\* Lines that leave a Comment note, an Error note, a Warning note and an
\* Info note
ReportLines == { <<"/","/"," ","c">>, <<"f","r","o","b">>, <<"%","1">>, <<"m","a","l","l","o","c"," ","a",":"," ","1">> }

MaxReportLines == 3

\* Their sequences, in every order, a program with notes of the four
\* severities and two programs whose tokens carry notes
ReportPrograms ==
    SeqsUpTo(ReportLines, MaxReportLines)
        \cup { << <<"m","a","l","l","o","c"," ","a",":"," ","1"," ","/","/"," ","c">>, <<"%","1">>, <<"f","r","o","b">> >>, << <<"l","b"," ","5">> >>, UsingFile }

ReportArgs ==
    { Args(note_level, spread_notes, add_token_notes, FALSE) :
        note_level \in NoteLevels, spread_notes \in BOOLEAN,
        add_token_notes \in BOOLEAN }

InitReport == Start(Programs) \/ StartMain(ReportPrograms, ReportArgs) \/ MainRuns

SpecReport == InitReport /\ [][Next]_vars

\* The severities, most severe first
SeverityRank(severity) ==
    CASE severity = "ERROR"   -> 1
      [] severity = "WARNING" -> 2
      [] severity = "COMMENT" -> 3
      [] severity = "INFO"    -> 4

\* How often x occurs in seq
Occurrences(seq, x) == Cardinality({k \in 1..Len(seq) : seq[k] = x})

\* The threshold print_notes works with: the level asked for, Warning if none
PrintThreshold == IF args.note_level = "None" THEN "WARNING" ELSE args.note_level

\* print_notes prints a note of the list, as often as it is in the list, iff
\* its severity is at most the threshold, and prints nothing else.
PrintedIffWithinThreshold ==
    /\ \A k \in 1..Len(notes) :
          Occurrences(printed.printed, notes[k]) =
              IF SeverityRank(notes[k][3]) <= SeverityRank(PrintThreshold)
              THEN Occurrences(notes, notes[k])
              ELSE 0
    /\ \A k \in 1..Len(printed.printed) :
          Occurrences(notes, printed.printed[k]) > 0

\* The notes of the list with the address and the listed form of a note
SameListed(address, entry) ==
    {k \in 1..Len(notes) :
        notes[k][1] = address /\ <<notes[k][2], notes[k][3], notes[k][4]>> = entry}

\* get_output, given a level, lists no note of the list beyond the level;
\* without --spread-notes it lists on the line of an address every note of
\* that address within the level, as often as it is in the list.
ListedIffWithinThreshold ==
    (args.note_level # "None" /\ ~args.add_token_notes) =>
        /\ \A a \in 1..Len(output) :
              /\ \A k \in 1..Len(output[a].notes) :
                    SeverityRank(output[a].notes[k][2]) <= SeverityRank(args.note_level)
              /\ \A k \in 1..Len(output[a].skipped_notes) :
                    SeverityRank(output[a].skipped_notes[k][2])
                        <= SeverityRank(args.note_level)
        /\ ~args.spread_notes =>
              \A k \in 1..Len(notes) :
                  LET a     == notes[k][1]
                      entry == <<notes[k][2], notes[k][3], notes[k][4]>>
                  IN  a < Len(output) =>
                          Occurrences(output[a + 1].notes, entry) =
                              IF SeverityRank(notes[k][3]) <= SeverityRank(args.note_level)
                              THEN Cardinality(SameListed(a, entry))
                              ELSE 0

----------------------------------------------------------------------------
(* Programs of macro names and of macros that emit macro calls *)

MacroChunks ==
    macro_names \cup { <<"k",":">>, <<":","k">>, <<"5">>, <<"a","d","d">>, <<"t">> }

MaxMacroChunks == 2

\* One chunk per line, and programs in which a transform emits a token that
\* is, or is part of, a call
\* Values of the four kinds a define call takes, two of each kind
DefineValues == { <<"%","1">>, <<"%","1","0">>, <<"5">>, <<"7">>, <<"0","x","a">>, <<"0","x","b">>, <<"h","a","l","t">>, <<"l","o","a","d">> }

\* Two define calls of one name, and two uses of the name
DefineProgram(first, second) ==
    << <<"d","e","f","i","n","e"," ","k",":"," ">> \o first, <<"d","e","f","i","n","e"," ","k",":"," ">> \o second, <<"u","s","e"," ",":","k"," ","u","s","e"," ",":","k">> >>

DefinePrograms ==
    {DefineProgram(first, second) : first \in DefineValues, second \in DefineValues}

MacroPrograms ==
    SeqsUpTo(MacroChunks, MaxMacroChunks)
    \cup DefinePrograms
    \cup { << <<"w","h","i","l","e"," ","w","h","i","l","e"," ","t"," ",":","x">> >>,
           << <<"u","n","t","i","l"," ","u","n","t","i","l"," ","t"," ",":","x">> >>,
           << <<"d","e","f","i","n","e"," ","k",":"," ","d","e","f","i","n","e">>, <<"u","s","e"," ",":","k"," ","j",":"," ","5">> >>,
           << <<"d","e","f","i","n","e"," ","k",":"," ","u","s","e">>, <<"u","s","e"," ",":","k">> >>,
           << <<"d","e","f","i","n","e"," ","k",":"," ","a","t">>, <<"m","a","l","l","o","c"," ","a",":"," ","1">>, <<"a","t"," ","u","s","e"," ",":","k"," ",":","a">> >>,
           << <<"d","e","f","i","n","e"," ","k",":"," ","5">>, <<"l","b"," ","u","s","e"," ",":","k">> >>,
           << <<"d","e","f","i","n","e"," ","k",":"," ","5">>, <<"m","a","l","l","o","c"," ","a",":"," ","u","s","e"," ",":","k">>, <<"a","t"," ",":","a">> >>,
           << <<"d","e","f","i","n","e"," ","k",":"," ","u","s","e">>, <<"u","s","e"," ",":","k"," ",":","k"," ",":","k">> >>,
           << <<"m","a","l","l","o","c"," ","a",":"," ","2","0">>, <<"a","t"," ","a","d","d"," ",":","a"," ",":","a"," ",":","a"," ","a","t"," ","m","d"," ",":","a"," ","4","0">> >>,
           << <<"x",":"," ","d","o"," ","u","n","t","i","l"," ","t"," ",":","x"," ","u","n","t","i","l"," ","t"," ",":","x">> >>,
           << <<"l","b"," ","5"," ","l","b"," ","0","x","f","f"," ","l","d"," ","7"," ","l","d"," ","7","0","0","0","0">> >> }

InitMacros == Start(Programs \cup MacroPrograms) \/ MainRuns

SpecMacros == InitMacros /\ [][Next]_vars

\* preprocess_tokens has returned
Preprocessed == pc \in {"convert", "map", "done", "output", "printed"}

\* A Command token that carries the name of a registered macro
NamesMacro(token) == token.type = "CMD" /\ token.value \in macro_names

\* C16: in the token sequence preprocess_tokens returns, no Command token has
\* the name of a registered macro; every such token left after the macro
\* passes is rewritten in place to an Error token (same position, line and
\* source text) and no other token is changed.
C16_NoMacroNameLeft ==
    /\ [](Preprocessed => \A k \in 1..Len(tokens) : ~NamesMacro(tokens[k]))
    /\ [][(pc = "preprocess" /\ pc' = "convert") =>
             /\ Len(tokens') = Len(tokens)
             /\ \A k \in 1..Len(tokens) :
                   IF NamesMacro(tokens[k])
                   THEN /\ tokens'[k].type = "ERR"
                        /\ tokens'[k].line_nr = tokens[k].line_nr
                        /\ tokens'[k].src_text = tokens[k].src_text
                   ELSE tokens'[k] = tokens[k]]_vars

\* 'lb' followed by a LabelRef matches no signature of lb: the Command is
\* returned as an Error token, before the LabelRef.
C16_Witness ==
    /\ pc = "convert"
    /\ source = << <<"l","b">>, <<":","k">> >>
    /\ Len(tokens) = 2
    /\ tokens[1].type = "ERR"
    /\ tokens[1].src_text = <<"l","b">>
    /\ tokens[2].type = "LABREF"

\* A step of the macro loops of preprocess_tokens
MacroLoopStep == pc = "preprocess" /\ ~raised /\ pc' \in {"preprocess", "convert"}

\* The entry at registry index m matches at position p (0-based)
IsCallAt(m, p, toks) == tokens_match_macro(MACROS[m], DropFirst(toks, p))

\* (m, p) comes before (n, q) in the order of the loops
LoopBefore(m, p, n, q) == m < n \/ (m = n /\ p < q)

\* The loops only go forward: the entry index never decreases and, within one
\* entry, the position never decreases.
PassesInOrder ==
    MacroLoopStep => ~LoopBefore(macro_idx', scan_i', macro_idx, scan_i)
                     \/ pc' = "convert"

\* C17, as stated: expansion is one left-to-right pass per registry entry in
\* registration order, so a token emitted by entry k is never matched by an
\* entry below k, and a token emitted by entry k is matched by an entry at or
\* above k whenever it forms a call of that entry: when the loops leave an
\* entry, the sequence holds no call of it (a call that is left was formed by
\* a token the entry itself emitted, since the pass visits every position).
C17_EmittedCallsMatched ==
    [][/\ PassesInOrder
       /\ (MacroLoopStep /\ macro_idx' > macro_idx) =>
              \A m \in macro_idx..(macro_idx' - 1) :
                  \A p \in 0..(Len(tokens) - 1) : ~IsCallAt(m, p, tokens)]_vars

\* C17, amended: expansion is one left-to-right pass per registry entry in
\* registration order, with no fixpoint loop.  A token emitted by entry k is
\* never matched by an entry below k; it is matched by an entry above k when
\* it forms a call at the time that entry's pass comes to it, and by entry k
\* itself only in a call that starts at or after the position of the
\* expansion: the loops skip no call at or ahead of their position, and never
\* return to a position behind it.
C17_SinglePassInOrder ==
    [][/\ PassesInOrder
       /\ MacroLoopStep =>
              \A m \in macro_idx..Len(MACROS) :
                  \A p \in 0..(Len(tokens) - 1) :
                      (/\ ~LoopBefore(m, p, macro_idx, scan_i)
                       /\ pc' = "preprocess" => LoopBefore(m, p, macro_idx', scan_i'))
                          => ~IsCallAt(m, p, tokens)]_vars

\* 'while while t :x': the second while was expanded at position 1 to
\* 'jt :x', which with the first while forms a call of the same entry behind
\* the position of the loops; the call was not matched and the first while is
\* returned as an Error token.
C17_Witness ==
    /\ pc = "convert"
    /\ source = << <<"w","h","i","l","e"," ","w","h","i","l","e"," ","t"," ",":","x">> >>
    /\ Len(tokens) = 3
    /\ tokens[1].type = "ERR"
    /\ tokens[2].type = "CMD" /\ tokens[2].value = <<"j","t">>
    /\ tokens[3].type = "LABREF" /\ tokens[3].value = <<"x">>

\* The calls of the entry at or after position i that the loop may still
\* take up: the positions that hold the entry's name followed by a token of
\* the kind of its first operand
OpenCalls(m, i, toks) ==
    Cardinality({p \in i..(Len(toks) - 1) :
                    /\ token_matches_name(MACROS[m], toks[p + 1])
                    /\ MACROS[m].operands # <<>> =>
                           /\ p + 2 <= Len(toks)
                           /\ toks[p + 2].type = MACROS[m].operands[1]})

\* A step of the loops that applies a macro
MacroApplied == pc = "preprocess" /\ ~raised /\ pc' = "preprocess" /\ ~raised'

\* C26: preprocess_tokens terminates.  Every application of a macro either
\* shortens the token sequence or leaves at the scan position a token the
\* same entry does not match, also when use substitutes a Command that is a
\* macro name; and every application brings the loops nearer their end: a
\* later entry, or for the same entry fewer open calls at or after the scan
\* position, or as many in fewer tokens.
C26_PreprocessTerminates ==
    [][MacroApplied =>
          /\ \/ Len(tokens') < Len(tokens)
             \/ ~IsCallAt(macro_idx', scan_i', tokens')
          /\ \/ macro_idx' > macro_idx
             \/ /\ macro_idx' = macro_idx
                /\ \/ OpenCalls(macro_idx, scan_i', tokens')
                          < OpenCalls(macro_idx, scan_i, tokens)
                   \/ /\ OpenCalls(macro_idx, scan_i', tokens')
                             = OpenCalls(macro_idx, scan_i, tokens)
                      /\ Len(tokens') - scan_i' < Len(tokens) - scan_i]_vars

\* 'use :k' with k defined as the Command use was replaced by 'use', which
\* with the next label reference is a call of use at the same position.
C26_Witness ==
    /\ pc = "preprocess" /\ ~raised
    /\ Len(consumed) = 2 /\ consumed[1].value = <<"u","s","e">>
    /\ Len(new_tokens) = 1
    /\ new_tokens[1].type = "CMD" /\ new_tokens[1].value = <<"u","s","e">>
    /\ IsCallAt(macro_idx, scan_i, tokens)

\* The run of DefineProgram has left the macro passes: the define call on
\* the line `winner` took effect, with the value given, the call on the
\* other line became the 'already defined' Error token, and both uses
\* became the value.
DefineOutcome(winner, value) ==
    /\ Len(tokens) = 3
    /\ tokens[1].type = "ERR"
    /\ tokens[1].value = <<"Macro '">> \o <<"k">> \o <<"' is already defined.">>
    /\ tokens[1].line_nr = 3 - winner
    /\ ctx.defines[<<"k">>].line_nr = winner
    /\ \A p \in 2..3 :
          /\ tokens[p].type = classify(value, 3).type
          /\ tokens[p].value = classify(value, 3).value
          /\ tokens[p].line_nr = 3

\* C29 as stated: of two define calls of one name the first in the source
\* takes effect and the second becomes the 'already defined' Error token,
\* whatever the kinds of the two values, and every use yields the value of
\* the first call.
C29_FirstInSourceWins ==
    pc = "convert" =>
        \A first, second \in DefineValues :
            source = DefineProgram(first, second) => DefineOutcome(1, first)

\* The place of a value's type among the define entries of MACROS
DefineRank(value) ==
    LET type == classify(value, 1).type
    IN  CASE type = "BIN" -> 1 [] type = "DECIMAL" -> 2
          [] type = "HEXADECIMAL" -> 3 [] type = "CMD" -> 4

\* C29 amended: of two define calls of one name the one expanded first
\* takes effect: the one whose value is of the earlier kind in the order
\* binary, decimal, hexadecimal, Command, and the first in the source when
\* the kinds are the same. The other becomes the 'already defined' Error
\* token, and every use yields the value of the call that took effect.
C29_FirstExpandedWins ==
    pc = "convert" =>
        \A first, second \in DefineValues :
            source = DefineProgram(first, second) =>
                IF DefineRank(first) <= DefineRank(second)
                THEN DefineOutcome(1, first)
                ELSE DefineOutcome(2, second)

\* A run where the second call in the source took effect: its value is
\* binary and the value of the first call is decimal.
C29_Witness ==
    /\ pc = "convert"
    /\ source = DefineProgram(<<"5">>, <<"%","1","0">>)
    /\ tokens[1].type = "ERR"
    /\ tokens[1].line_nr = 1
    /\ tokens[2].type = "BIN"
    /\ tokens[2].value = <<"1","0">>

\* A name of the form __X_end
IsEndLabelName(name) ==
    /\ Len(name) >= 6
    /\ SubSeq(name, 1, 2) = <<"_","_">>
    /\ SubSeq(name, Len(name) - 3, Len(name)) = <<"_","e","n","d">>

\* No label written in the source has the form __X_end
NoUserEndLabel ==
    LET written == tokenize(source).tokens
    IN  \A k \in 1..Len(written) :
            written[k].type = "LABEL" => ~IsEndLabelName(written[k].value)

\* A token that until made: it carries the note of the end label
IsSynthesized(token) ==
    /\ token.note # None
    /\ token.note[1] = "end label for until loop '"

\* C30: in a program where no label written by the user has the form
\* __X_end, the end labels that until makes never collide: there is no
\* 'Duplicate label' Error for such a name, and the LabelRef that an until
\* makes resolves to the end label of that until, the address after its
\* back jump and the operand of it, also when several until calls name the same loop label.
C30_EndLabelsNeverCollide ==
    (pc = "done" /\ ~raised /\ NoUserEndLabel) =>
        /\ \A name \in DOMAIN labels :
               IsEndLabelName(name) => DuplicateNotes(notes, name) = {}
        /\ \A g \in 1..Len(map) :
               (/\ map[g][1].type = "LABREF"
                /\ IsSynthesized(map[g][1])) =>
                   /\ map[g][1].value \in DOMAIN labels
                   /\ labels[map[g][1].value] = g + 2

----------------------------------------------------------------------------
(* Runs of the program that compile several texts one after another *)

RecompileArgs == { Args(level, FALSE, FALSE, TRUE) : level \in {"ERROR", "INFO"} }

InitRecompile ==
    \/ Start(Programs)
    \/ StartMain({ErrorFreeFile, DefiningFile, UsingFile}, RecompileArgs)
    \/ MainRuns

SpecRecompile == InitRecompile /\ [][Next]_vars

\* The compilation has no note of severity Error
ErrorFree(compilation) ==
    \A k \in 1..Len(compilation.notes) : compilation.notes[k][3] # "ERROR"

\* The first word of a line
FirstWord(line) == TakeFirst(line, WordLen(line))

\* new is old with the name of one instruction replaced by a name that is
\* neither an instruction nor a macro
IsTypoOf(new, old) ==
    /\ Len(new) = Len(old)
    /\ \E k \in 1..Len(old) :
          /\ find_instruction(FirstWord(old[k])) # 0
          /\ find_instruction(FirstWord(new[k])) = 0
          /\ FirstWord(new[k]) \notin macro_names
          /\ DropFirst(new[k], WordLen(new[k])) = DropFirst(old[k], WordLen(old[k]))
          /\ \A j \in 1..Len(old) : j # k => new[j] = old[j]

\* C19: a program that is an error-free program with the name of one
\* instruction, with or without an operand, replaced by an unknown name that
\* is no macro has the same number of addresses as the error-free program
\* and binds every label to the same address.
C19_TypoKeepsAddresses ==
    (pc = "done" /\ ~raised) =>
        \A n \in 1..Len(compiled) :
            (ErrorFree(compiled[n]) /\ IsTypoOf(source, compiled[n].source)) =>
                /\ Len(binary) = Len(compiled[n].binary)
                /\ labels = compiled[n].labels

\* preprocess_tokens has just been entered
AtPreprocessEntry ==
    pc = "preprocess" /\ macro_idx = 1 /\ scan_i = 0 /\ consumed = <<>>

\* C20: the macro expansion context is fresh for every compilation.  Every
\* call of preprocess_tokens starts from the empty context, so no define or
\* malloc of an earlier compilation is visible, and a compilation of a source
\* that was compiled before in the same run of the program yields the same
\* words, labels and notes as it did then.
C20_FreshContext ==
    /\ AtPreprocessEntry => ctx = EmptyContext
    /\ (pc = "done" /\ ~raised) =>
           \A n \in 1..Len(compiled) :
               compiled[n].source = source =>
                   /\ binary = compiled[n].binary
                   /\ labels = compiled[n].labels
                   /\ notes = compiled[n].notes

\* The text that defines k and allocates a was compiled, then the text that
\* only uses them (with errors, as they are not visible), then the first text
\* again, with the result of the first time.
C20_Witness ==
    /\ pc = "done" /\ ~raised
    /\ Len(compiled) = 2
    /\ source = DefiningFile
    /\ compiled[1].source = DefiningFile
    /\ compiled[2].source = UsingFile
    /\ ErrorFree(compiled[1])
    /\ ~ErrorFree(compiled[2])
    /\ binary = compiled[1].binary
    /\ notes = compiled[1].notes

----------------------------------------------------------------------------
(* Programs of at <op> with the length given and with the length inferred *)

MaxAtLength == 40

AtLengths == 1..MaxAtLength

AtOperations == {<<"a","d","d">>, <<"m","d">>, <<"b","c">>}

\* A length as a literal in the three radixes
AtLiterals(n) == { str(n), <<"0","x">> \o NatText(n, 16), <<"%">> \o NatText(n, 2) }

AtPrograms ==
    { << <<"m","a","l","l","o","c"," ","a",":"," ">> \o str(n), <<"a","t"," ">> \o op \o <<" ",":","a">> >> :
        n \in AtLengths, op \in AtOperations }
    \cup { << <<"m","a","l","l","o","c"," ","a",":"," ">> \o str(n), <<"m","a","l","l","o","c"," ","b",":"," ">> \o str(n), <<"a","t"," ","a","d","d"," ",":","a"," ",":","b">> >> :
             n \in AtLengths }
    \cup { << <<"a","t"," ">> \o op \o <<" ",":","a"," ">> \o literal >> :
             op \in AtOperations, literal \in UNION {AtLiterals(n) : n \in AtLengths} }

InitAtMath == Start(Programs \cup AtPrograms) \/ MainRuns

SpecAtMath == InitAtMath /\ [][Next]_vars

\* The last macro call was a call of at <op> that was expanded, not answered
\* with an Error token
AtMathExpanded ==
    /\ pc = "preprocess" /\ ~raised
    /\ Len(consumed) >= 3
    /\ consumed[1].type = "CMD" /\ consumed[1].value = <<"a","t">>
    /\ new_tokens # <<>>
    /\ new_tokens[1].type # "ERR"

\* The length was given as the trailing literal of the call
AtLengthGiven == consumed[Len(consumed)].type # "LABREF"

\* The total operation length L of the call: the trailing literal, or the
\* size of the first allocated label
AtLength ==
    IF AtLengthGiven
    THEN get_token_value_as_int(consumed[Len(consumed)]).value
    ELSE LET allocated == SelectSeq(SubSeq(consumed, 3, Len(consumed)),
                                    LAMBDA t : is_allocated(ctx, t.value))
         IN  ctx.allocations[allocated[1].value].size

\* The tokens of the expansion after the last label reference: the
\* instructions of the operation with their length operands
AtChunks ==
    LET last_labref == CHOOSE k \in 1..Len(new_tokens) :
                           /\ new_tokens[k].type = "LABREF"
                           /\ \A j \in (k + 1)..Len(new_tokens) :
                                  new_tokens[j].type # "LABREF"
    IN  SubSeq(new_tokens, last_labref + 1, Len(new_tokens))

\* The sum of (operand + 1) over the chunks
RECURSIVE UnitsOf(_)
UnitsOf(chunks) ==
    IF Len(chunks) < 2 THEN 0
    ELSE get_token_value_as_int(chunks[2]).value + 1
             + UnitsOf(SubSeq(chunks, 3, Len(chunks)))

\* Every chunk is the instruction of the operation with a length operand in
\* 0..15
ChunksWellFormed ==
    /\ Len(AtChunks) >= 2
    /\ Len(AtChunks) % 2 = 0
    /\ \A k \in 1..Len(AtChunks) :
          IF k % 2 = 1
          THEN AtChunks[k] = consumed[2]
          ELSE /\ ~get_token_value_as_int(AtChunks[k]).raised
               /\ get_token_value_as_int(AtChunks[k]).value \in 0..15

\* C21: an 'at <op> ...' call of total operation length L >= 1, given as the
\* trailing literal or inferred from the allocation sizes, ends with one <op>
\* instruction per chunk of at most 16 units; every length operand is in
\* 0..15 and the sum over the chunks of (operand + 1) is L.
C21_ChunksSumToLength ==
    (AtMathExpanded /\ AtLength >= 1) =>
        /\ ChunksWellFormed
        /\ UnitsOf(AtChunks) = AtLength

----------------------------------------------------------------------------
(* Programs of one word: an instruction with a literal operand, a literal
   alone, an instruction alone *)

MaxBits == 12

\* Bit strings of n characters: all ones, and a one after zeros
BitStrings(n) == { [k \in 1..n |-> "1"], [k \in 1..n |-> IF k = n THEN "1" ELSE "0"] }

AllBitStrings == UNION {BitStrings(n) : n \in 1..MaxBits}

WordInstructions == {<<"l","o","a","d">>, <<"s","e","t","_","a">>, <<"x","o","r">>, <<"h","a","l","t">>, <<"j","u","m","p">>}

WordPrograms ==
    { << name \o <<" ","%">> \o bits >> : name \in WordInstructions \ {<<"h","a","l","t">>, <<"j","u","m","p">>},
                                   bits \in AllBitStrings }
    \cup { << <<"%">> \o bits >> : bits \in AllBitStrings }
    \cup { << name >> : name \in WordInstructions }

InitWords == Start(Programs \cup WordPrograms) \/ MainRuns

SpecWords == InitWords /\ [][Next]_vars

\* A bit string with zeros before it up to width characters
PaddedTo(bits, width) ==
    [k \in 1..(IF Len(bits) > width THEN Len(bits) ELSE width) |->
        IF k <= width - Len(bits) THEN "0" ELSE bits[k - (IF width > Len(bits) THEN width - Len(bits) ELSE 0)]]

FirstTen(bits) == [k \in 1..(IF Len(bits) > 10 THEN 10 ELSE Len(bits)) |-> bits[k]]

\* The number of Error notes the encoder appends for the address (0-based)
EncoderErrorsAt(address) ==
    Cardinality({k \in (Len(notes) + 1)..Len(notes') :
                    notes'[k][1] = address /\ notes'[k][3] = "ERROR"})

OpcodeOf(token) == INSTRUCTIONS[find_instruction(token.value)].opcode

\* C24: for a group of a known instruction and a BinaryLiteral operand the
\* word is the first 10 characters of the opcode followed by the operand
\* with zeros before it up to 10 - len(opcode) bits, and an Error note is
\* added exactly when the operand is longer than 10 - len(opcode); a lone
\* BinaryLiteral or a lone opcode gets zeros before it up to 10 bits, or is
\* cut to its first 10 bits with one Error note when longer.
C24_WordOfGroup ==
    [][(Mapped /\ pc' = "done") =>
          \A a \in 1..Len(map) :
              LET group == map[a]
              IN  /\ (Len(group) = 2 /\ IsKnownInstruction(group[1])
                          /\ group[2].type = "BIN") =>
                         LET room == 10 - Len(OpcodeOf(group[1]))
                         IN  /\ binary'[a] = FirstTen(OpcodeOf(group[1])
                                                 \o PaddedTo(group[2].value, room))
                             /\ EncoderErrorsAt(a - 1)
                                    = IF Len(group[2].value) > room THEN 1 ELSE 0
                  /\ (Len(group) = 1 /\ group[1].type = "BIN") =>
                         /\ binary'[a] = FirstTen(PaddedTo(group[1].value, 10))
                         /\ EncoderErrorsAt(a - 1)
                                = IF Len(group[1].value) > 10 THEN 1 ELSE 0
                  /\ (Len(group) = 1 /\ IsKnownInstruction(group[1])) =>
                         /\ binary'[a] = FirstTen(PaddedTo(OpcodeOf(group[1]), 10))
                         /\ EncoderErrorsAt(a - 1)
                                = IF Len(OpcodeOf(group[1])) > 10 THEN 1 ELSE 0]_vars

\* 'load %11111': the operand has five bits where four are left; the word is
\* the opcode and the first four bits, and one Error note was added.
C24_Witness ==
    /\ pc = "done"
    /\ source = << <<"l","o","a","d"," ","%","1","1","1","1","1">> >>
    /\ binary = << <<"0","0","0","0","0","1","1","1","1","1">> >>
    /\ Cardinality({k \in 1..Len(notes) : notes[k][3] = "ERROR"}) = 1
============================================================================
